---- MODULE Spec2Model ----
\* Voice-command pipeline of StorageAI: SortingLogic (handle_voice_intent,
\* _process_ops_batch), InventoryService, SemanticSearch, the NLU front end
\* (MultiIntentExtractor, IntentParser) and VoiceOrchestrator._on_wake.
EXTENDS Integers, Sequences, FiniteSets, TLC

\* ---------------------------------------------------------------- bounds
MaxQty == 2
MaxFaults == 1
MaxWakes == 3
MaxEls == 2
MaxTokens == 5
MaxClicks == 4

\* ------------------------------------------------------ program constants
CHUNK == 5
THRESHOLD == 80

\* ------------------------------------------------------------ small helpers
Max(a, b) == IF a >= b THEN a ELSE b

Min(a, b) == IF a <= b THEN a ELSE b

Take(s, n) == SubSeq(s, 1, Min(n, Len(s)))

Drop(s, n) == SubSeq(s, n + 1, Len(s))

\* ------------------------------------------------------------ domain/models
\* Item(id, name, canonical_name, quantity, box_id); None is the record with id 0.
\* The display name and the canonical name are kept as one field.
NoneItem == [id |-> 0, name |-> "", qty |-> 0, box |-> ""]

MkItem(i, n, q, b) == [id |-> i, name |-> n, qty |-> q, box |-> b]

\* ------------------------------------------------------- domain/canonicalize
\* Names are atomic strings; the conversions are the tables the code computes
\* on the names the model uses.
canonicalize(n) ==
  CASE n = "Nut" -> "nut"
    [] n = "Nuts" -> "nuts"
    [] OTHER -> n

_singularize_token(t) ==
  CASE t = "nuts" -> "nut"
    [] t = "bolts" -> "bolt"
    [] OTHER -> t

normalize_to_singular(n) == _singularize_token(canonicalize(n))

\* The same service on spelled-out names: a name is the sequence of its
\* whitespace-separated tokens and a token is the sequence of its characters.
LowerChar(c) ==
  CASE c = "T" -> "t"
    [] c = "S" -> "s"
    [] OTHER -> c

LowerToken(t) == [k \in 1..Len(t) |-> LowerChar(t[k])]

EndsWith(t, suf) ==
  Len(t) >= Len(suf) /\ SubSeq(t, Len(t) - Len(suf) + 1, Len(t)) = suf

\* canonicalize: strip, lower-case, single spaces between the tokens.
canonicalize_tokens(toks) == [k \in 1..Len(toks) |-> LowerToken(toks[k])]

\* One leading article followed by a space is removed, whatever its case.
_strip_leading_articles(toks) ==
  LET articles ==
        { <<"a">>, <<"a", "n">>, <<"t", "h", "e">>, <<"s", "o", "m", "e">>,
          <<"a", "n", "y">>, <<"a", "n", "o", "t", "h", "e", "r">>,
          <<"a", "d", "d", "i", "t", "i", "o", "n", "a", "l">>,
          <<"e", "x", "t", "r", "a">> }
  IN IF Len(toks) >= 2 /\ LowerToken(toks[1]) \in articles THEN Tail(toks) ELSE toks

\* The pattern is tried with the optional leading word first, then without it.
_collapse_of_phrases(toks) ==
  LET units ==
        { <<"p", "i", "e", "c", "e">>, <<"p", "i", "e", "c", "e", "s">>,
          <<"b", "u", "n", "c", "h">>, <<"p", "a", "c", "k">>, <<"s", "e", "t">> }
      unit_of(k) ==
        Len(toks) >= k + 2 /\ LowerToken(toks[k]) \in units
        /\ LowerToken(toks[k + 1]) = <<"o", "f">>
  IN IF unit_of(2) THEN SubSeq(toks, 4, Len(toks))
     ELSE IF unit_of(1) THEN SubSeq(toks, 3, Len(toks))
          ELSE toks

\* _singularize_token without original_token, as normalize_to_singular calls it.
_singularize_token_chars(tok) ==
  IF Len(tok) > 4 /\ EndsWith(tok, <<"i", "e", "s">>)
  THEN SubSeq(tok, 1, Len(tok) - 3) \o <<"y">>
  ELSE IF \E suf \in { <<"s", "e", "s">>, <<"x", "e", "s">>, <<"z", "e", "s">>,
                        <<"c", "h", "e", "s">>, <<"s", "h", "e", "s">> } :
             EndsWith(tok, suf)
       THEN SubSeq(tok, 1, Len(tok) - 2)
       ELSE IF EndsWith(tok, <<"s">>) /\ ~EndsWith(tok, <<"s", "s">>) /\ Len(tok) > 3
            THEN SubSeq(tok, 1, Len(tok) - 1)
            ELSE tok

normalize_to_singular_tokens(toks) ==
  LET last(base) ==
        IF base = <<>> THEN base
        ELSE [base EXCEPT ![Len(base)] = _singularize_token_chars(base[Len(base)])]
  IN last(canonicalize_tokens(_collapse_of_phrases(_strip_leading_articles(toks))))

\* ------------------------------------------------------------ vector/search
\* Cosine similarity of the embedder for the names of the model, in hundredths.
Sim(q, c) ==
  CASE q = c -> 100
    [] q = "nutt" /\ c = "nut" -> 80
    [] q = "bol" /\ c = "bolt" -> 79
    [] q = "bol" /\ c = "nut" -> 30
    [] q = "bol" /\ c = "tape" -> 20
    [] q = "nut" /\ c = "bolt" -> 35
    [] q = "nut" /\ c = "tape" -> 25
    [] q = "nutt" /\ c = "bolt" -> 33
    [] q = "nutt" /\ c = "tape" -> 23
    [] q = "bolt" /\ c = "nut" -> 36
    [] q = "bolt" /\ c = "tape" -> 15
    [] q = "tape" /\ c = "nut" -> 26
    [] q = "tape" /\ c = "bolt" -> 16
    [] OTHER -> 5

Match(i, ix, q) == [id |-> i, name |-> ix[i].name, box |-> ix[i].box,
                    score |-> Sim(q, ix[i].name)]

BestId(q, S, ix) ==
  CHOOSE i \in S : \A j \in S :
    \/ Sim(q, ix[i].name) > Sim(q, ix[j].name)
    \/ (Sim(q, ix[i].name) = Sim(q, ix[j].name) /\ i <= j)

RECURSIVE Ranked(_, _, _)
Ranked(q, S, ix) ==
  IF S = {} THEN <<>>
  ELSE LET b == BestId(q, S, ix)
       IN <<Match(b, ix, q)>> \o Ranked(q, S \ {b}, ix)

\* SemanticSearch.top_k: the index returns its k nearest entries, sorted by
\* score in descending order; an empty query returns nothing.
top_k(q, k, ix) ==
  IF q = "" THEN <<>>
  ELSE Take(Ranked(canonicalize(q), DOMAIN ix, ix), Max(1, k))

ItemOfMatch(m) == MkItem(m.id, m.name, 0, m.box)

\* A best match exactly at the threshold is not accepted.
find_best_match_strict(q, nSug, ix) ==
  LET pick(matches) ==
        LET best_score == IF matches = <<>> THEN 0 ELSE matches[1].score
        IN IF matches = <<>> THEN [item |-> NoneItem, score |-> 0, sugg |-> <<>>]
           ELSE IF best_score > THRESHOLD
                THEN [item |-> ItemOfMatch(matches[1]), score |-> best_score,
                      sugg |-> SubSeq(matches, 2, Min(nSug + 1, Len(matches)))]
                ELSE [item |-> NoneItem, score |-> best_score,
                      sugg |-> Take(matches, nSug)]
  IN pick(top_k(q, nSug + 1, ix))

find_best_match(q, nSug, ix) ==
  LET pick(matches) ==
        LET best_score == IF matches = <<>> THEN 0 ELSE matches[1].score
        IN IF matches = <<>> THEN [item |-> NoneItem, score |-> 0, sugg |-> <<>>]
           ELSE IF best_score >= THRESHOLD
                THEN [item |-> ItemOfMatch(matches[1]), score |-> best_score,
                      sugg |-> SubSeq(matches, 2, Min(nSug + 1, Len(matches)))]
                ELSE [item |-> NoneItem, score |-> best_score,
                      sugg |-> Take(matches, nSug)]
  IN pick(top_k(q, nSug + 1, ix))

IndexItem(ix, it, boxName) ==
  [i \in DOMAIN ix \cup {it.id} |->
     IF i = it.id THEN [name |-> it.name, box |-> it.box] ELSE ix[i]]

IndexDelete(ix, i) == [j \in DOMAIN ix \ {i} |-> ix[j]]

\* --------------------------------------------------- storage/airtable_client
\* The store maps item ids to [name, qty, box]; a box is identified by its name.
\* f is the fault of the collaborators during the current op: "none", "raise"
\* (a call raises RuntimeError), "delfail" (delete_item / delete_box return
\* False and delete nothing), "updnone" (the PATCH is applied but the client
\* returns no record).
StoreDelete(st, i, f) ==
  IF f = "delfail" THEN st ELSE [j \in DOMAIN st \ {i} |-> st[j]]

StoreUpdateQty(st, i, q) == [st EXCEPT ![i].qty = q]

StoreMove(st, i, b) == [st EXCEPT ![i].box = b]

StoreAdd(st, i, n, q, b) ==
  [j \in DOMAIN st \cup {i} |-> IF j = i THEN [name |-> n, qty |-> q, box |-> b] ELSE st[j]]

Returned(st, i, f) ==
  IF f = "updnone" THEN NoneItem ELSE MkItem(i, st[i].name, st[i].qty, st[i].box)

\* ------------------------------------------------------- services/inventory
_get_item_by_id(i, st) ==
  IF i \in DOMAIN st THEN MkItem(i, st[i].name, st[i].qty, st[i].box) ELSE NoneItem

find_item_by_exact_name(n, st) ==
  LET S == {i \in DOMAIN st : st[i].name = n}
  IN IF S = {} THEN NoneItem
     ELSE LET i == CHOOSE k \in S : \A j \in S : k <= j
          IN MkItem(i, st[i].name, st[i].qty, st[i].box)

find_item_by_semantic(n, ix) == find_best_match(normalize_to_singular(n), 3, ix)

BoxLower(n) ==
  CASE n = "A" -> "a"
    [] n = "B" -> "b"
    [] n = "C" -> "c"
    [] n = "Z" -> "z"
    [] OTHER -> n

BoxUpper(n) ==
  CASE n = "a" -> "A"
    [] n = "b" -> "B"
    [] n = "c" -> "C"
    [] n = "z" -> "Z"
    [] OTHER -> n

spoken_to_letter(t) ==
  CASE t = "bee" -> "b"
    [] t = "see" -> "c"
    [] OTHER -> t

\* difflib.SequenceMatcher ratio, in hundredths, on the names of the model.
Ratio(a, b) ==
  CASE a = b -> 100
    [] a = "ab" /\ b \in {"a", "b"} -> 67
    [] OTHER -> 0

FuzzyCutoff(bx) == IF \A b \in bx : b \in {"A", "B", "C", "Z"} THEN 50 ELSE 80

\* get_close_matches(target, names, n=1, cutoff): the best name at or above the
\* cutoff, the greater name on equal ratios; "" when there is none.
CloseMatch(target, bx) ==
  LET ok == {b \in bx : Ratio(target, BoxLower(b)) >= FuzzyCutoff(bx)}
  IN IF ok = {} THEN ""
     ELSE CHOOSE b \in ok : \A c \in ok :
            \/ Ratio(target, BoxLower(b)) > Ratio(target, BoxLower(c))
            \/ (Ratio(target, BoxLower(b)) = Ratio(target, BoxLower(c))
                /\ (b = c \/ (b = "B" /\ c = "A") \/ (b = "C" /\ c \in {"A", "B"})
                    \/ (b = "Z")))

\* Returns the name of the box, "" for None.
_find_box_by_name(n, bx) ==
  LET lookup(target) ==
        IF \E b \in bx : BoxLower(b) = target
        THEN CHOOSE b \in bx : BoxLower(b) = target
        ELSE CloseMatch(target, bx)
  IN lookup(spoken_to_letter(BoxLower(n)))

InvRet(st, ix, it, sg, e) ==
  [store |-> st, index |-> ix, item |-> it, sugg |-> sg, exc |-> e]

\* The names are compared as they are and the box is created under the name given.
add_box_as_given(n, bx) ==
  IF n \in bx THEN [boxes |-> bx, box |-> n]
  ELSE [boxes |-> bx \cup {n}, box |-> n]

add_box(n, bx) ==
  LET same == {b \in bx : BoxLower(b) = BoxLower(n)}
  IN IF same # {} THEN [boxes |-> bx, box |-> CHOOSE b \in same : TRUE]
     ELSE [boxes |-> bx \cup {BoxUpper(n)}, box |-> BoxUpper(n)]

\* The box is deleted without looking at the items linked to it.
remove_box_unchecked(n, st, bx, f) ==
  LET on(box) ==
        IF box = "" THEN [boxes |-> bx, ret |-> FALSE, exc |-> "ValueError"]
        ELSE IF f = "delfail" THEN [boxes |-> bx, ret |-> FALSE, exc |-> ""]
             ELSE [boxes |-> bx \ {box}, ret |-> TRUE, exc |-> ""]
  IN on(_find_box_by_name(n, bx))

\* ret is the value returned; exc is "ValueError" when the box is not found.
remove_box_if_empty(n, st, bx, f) ==
  LET on(box) ==
        IF box = "" THEN [boxes |-> bx, ret |-> FALSE, exc |-> "ValueError"]
        ELSE IF \E i \in DOMAIN st : st[i].box = box
             THEN [boxes |-> bx, ret |-> FALSE, exc |-> ""]
             ELSE IF f = "delfail" THEN [boxes |-> bx, ret |-> FALSE, exc |-> ""]
                  ELSE [boxes |-> bx \ {box}, ret |-> TRUE, exc |-> ""]
  IN on(_find_box_by_name(n, bx))

\* The index entries of the deleted items are left in place.
clear_box_items_keep_index(n, st, ix, bx, f) ==
  LET on(box) ==
        LET inBox == {i \in DOMAIN st : st[i].box = box}
        IN IF box = ""
           THEN [store |-> st, index |-> ix, count |-> 0, exc |-> "ValueError"]
           ELSE IF f = "delfail"
                THEN [store |-> st, index |-> ix, count |-> 0, exc |-> ""]
                ELSE [store |-> [j \in DOMAIN st \ inBox |-> st[j]],
                      index |-> ix,
                      count |-> Cardinality(inBox), exc |-> ""]
  IN on(_find_box_by_name(n, bx))

\* Returns the store and the index after the call and the count it returns;
\* exc is "ValueError" when the box is not found.
clear_box_items(n, st, ix, bx, f) ==
  LET on(box) ==
        LET inBox == {i \in DOMAIN st : st[i].box = box}
        IN IF box = ""
           THEN [store |-> st, index |-> ix, count |-> 0, exc |-> "ValueError"]
           ELSE IF f = "delfail"
                THEN [store |-> st, index |-> ix, count |-> 0, exc |-> ""]
                ELSE [store |-> [j \in DOMAIN st \ inBox |-> st[j]],
                      index |-> [j \in DOMAIN ix \ inBox |-> ix[j]],
                      count |-> Cardinality(inBox), exc |-> ""]
  IN on(_find_box_by_name(n, bx))

\* Returns [store, index, item, isNew, exc, nextId]; exc is "" or the kind of
\* ValueError raised ("BoxNotFound", "Validation").
add_item(n, quantity, box_name, st, ix, bx, nid, f) ==
  LET create(canonical, box) ==
        IF box = ""
        THEN [store |-> st, index |-> ix, item |-> NoneItem, isNew |-> FALSE,
              exc |-> "BoxNotFound", nextId |-> nid]
        ELSE IF canonical = "" \/ quantity < 0
             THEN [store |-> st, index |-> ix, item |-> NoneItem, isNew |-> FALSE,
                   exc |-> "Validation", nextId |-> nid]
             ELSE [store |-> StoreAdd(st, nid, canonical, quantity, box),
                   index |-> IndexItem(ix, MkItem(nid, canonical, quantity, box), box),
                   item |-> MkItem(nid, canonical, quantity, box),
                   isNew |-> TRUE, exc |-> "", nextId |-> nid + 1]
      indexed(st2, res) ==
        [store |-> st2, index |-> IndexItem(ix, res, res.box), item |-> res,
         isNew |-> FALSE, exc |-> "", nextId |-> nid]
      picked(st2, updated, full) ==
        indexed(st2, IF updated # NoneItem THEN updated ELSE full)
      \* update_item_quantity builds the Item after the PATCH: a negative
      \* quantity is written, then rejected by the Item validator (a ValueError).
      increment(full, st2) ==
        IF st2[full.id].qty < 0 /\ f # "updnone"
        THEN [store |-> st2, index |-> ix, item |-> NoneItem, isNew |-> FALSE,
              exc |-> "Validation", nextId |-> nid]
        ELSE picked(st2, Returned(st2, full.id, f), full)
      merge(canonical, full) ==
        IF full # NoneItem
        THEN increment(full, StoreUpdateQty(st, full.id, full.qty + quantity))
        ELSE create(canonical, _find_box_by_name(box_name, bx))
      search(canonical, r) ==
        merge(canonical, IF r.item # NoneItem /\ r.score >= THRESHOLD
                         THEN _get_item_by_id(r.item.id, st) ELSE NoneItem)
      start(canonical) == search(canonical, find_best_match(canonical, 3, ix))
  IN start(normalize_to_singular(n))

Resolve(n, resolved, ix) ==
  IF resolved # NoneItem
  THEN [item |-> resolved, score |-> 100, sugg |-> <<>>]
  ELSE find_item_by_semantic(n, ix)

Concrete(cand, resolved, st) ==
  LET byId(c1) ==
        IF c1 # NoneItem THEN c1
        ELSE IF resolved = NoneItem THEN find_item_by_exact_name(cand.name, st)
             ELSE NoneItem
  IN byId(_get_item_by_id(cand.id, st))

\* The record is deleted only when the quantity would be negative.
DepletedStrict(new_qty) == new_qty < 0

\* inventory.py line 162: the record is deleted when nothing is left.
Depleted(new_qty) == new_qty <= 0

remove_item(n, quantity, resolved, st, ix, f) ==
  LET updated(st2, id) == InvRet(st2, ix, Returned(st2, id, f), <<>>, "")
      apply(r, concrete) ==
        IF concrete = NoneItem THEN InvRet(st, ix, NoneItem, r.sugg, "")
        ELSE IF Depleted(concrete.qty - quantity)
             THEN InvRet(StoreDelete(st, concrete.id, f), IndexDelete(ix, concrete.id),
                         [concrete EXCEPT !.qty = 0], <<>>, "")
             ELSE updated(StoreUpdateQty(st, concrete.id, concrete.qty - quantity),
                          concrete.id)
      found(r) ==
        apply(r, IF r.item = NoneItem THEN NoneItem ELSE Concrete(r.item, resolved, st))
  IN found(Resolve(n, resolved, ix))

remove_item_all(n, resolved, st, ix, f) ==
  LET apply(r, concrete) ==
        IF concrete = NoneItem THEN InvRet(st, ix, NoneItem, r.sugg, "")
        ELSE InvRet(StoreDelete(st, concrete.id, f), IndexDelete(ix, concrete.id),
                    [concrete EXCEPT !.qty = 0], <<>>, "")
      found(r) ==
        apply(r, IF r.item = NoneItem THEN NoneItem ELSE Concrete(r.item, resolved, st))
  IN found(Resolve(n, resolved, ix))

move_item(n, to_box_name, from_box_name, resolved, st, ix, bx, f) ==
  LET moved(r, dest_box, st2, updated) ==
        IF updated = NoneItem THEN InvRet(st2, ix, NoneItem, r.sugg, "")
        ELSE InvRet(st2, IndexItem(ix, updated, dest_box), updated, <<>>, "")
      apply(r, dest_box, concrete, src_box) ==
        IF concrete = NoneItem THEN InvRet(st, ix, NoneItem, r.sugg, "")
        ELSE IF from_box_name # "" /\ (src_box = "" \/ concrete.box # src_box)
             THEN InvRet(st, ix, NoneItem, r.sugg, "")
        ELSE IF concrete.box = dest_box THEN InvRet(st, ix, concrete, <<>>, "")
        ELSE moved(r, dest_box, StoreMove(st, concrete.id, dest_box),
                   Returned(StoreMove(st, concrete.id, dest_box), concrete.id, f))
      found(r, dest_box) ==
        apply(r, dest_box,
              IF r.item = NoneItem THEN NoneItem ELSE Concrete(r.item, resolved, st),
              IF from_box_name = "" THEN "" ELSE _find_box_by_name(from_box_name, bx))
      to(dest_box) ==
        IF dest_box = "" THEN InvRet(st, ix, NoneItem, <<>>, "ValueError")
        ELSE found(Resolve(n, resolved, ix), dest_box)
  IN to(_find_box_by_name(to_box_name, bx))

move_all_items_between_boxes(from_box_name, to_box_name, st, ix, bx, f) ==
  LET moved(dest_box, toMove, st2) ==
        IF f = "updnone"
        THEN [store |-> st2, index |-> ix, count |-> 0, exc |-> ""]
        ELSE [store |-> st2,
              index |-> [i \in DOMAIN ix \cup toMove |->
                           IF i \in toMove
                           THEN [name |-> st2[i].name, box |-> dest_box]
                           ELSE ix[i]],
              count |-> Cardinality(toMove), exc |-> ""]
      move(dest_box, toMove) ==
        moved(dest_box, toMove,
              [i \in DOMAIN st |->
                 IF i \in toMove THEN [st[i] EXCEPT !.box = dest_box] ELSE st[i]])
      between(src_box, dest_box) ==
        IF src_box = "" \/ dest_box = ""
        THEN [store |-> st, index |-> ix, count |-> 0, exc |-> "ValueError"]
        ELSE IF src_box = dest_box
             THEN [store |-> st, index |-> ix, count |-> 0, exc |-> ""]
             ELSE move(dest_box, {i \in DOMAIN st : st[i].box = src_box})
  IN between(_find_box_by_name(from_box_name, bx), _find_box_by_name(to_box_name, bx))

resolve_semantic_to_store_item(n, st, ix) ==
  LET first(same) == CHOOSE k \in same : \A j \in same : k <= j
      byBox(same) ==
        IF same = {} THEN NoneItem ELSE _get_item_by_id(first(same), st)
      byId(r, exact) ==
        IF exact # NoneItem THEN exact
        ELSE byBox({i \in DOMAIN st : st[i].box = r.item.box /\ st[i].name = r.item.name})
      found(r) ==
        IF r.item = NoneItem THEN NoneItem
        ELSE byId(r, _get_item_by_id(r.item.id, st))
  IN found(find_item_by_semantic(n, ix))

\* ------------------------------------------------- services/sorting_logic
\* An op draft: the dict exchanged between extraction and execution.
\* quantity is decimal text; resolved is the resolved_item (NoneItem if absent).
MkOp(i, o, q, t, fr, ra, ev) ==
  [intent |-> i, object_name |-> o, quantity |-> q, to_box |-> t, from_box |-> fr,
   remove_all |-> ra, everything |-> ev, resolved |-> NoneItem]

\* int(s) on the quantity texts of the model.
IntOf(s) ==
  CASE s = "1" -> 1
    [] s = "2" -> 2
    [] s = "3" -> 3
    [] s = "-1" -> 0 - 1
    [] s = "-2" -> 0 - 2
    [] OTHER -> 0

StrOf(n) ==
  CASE n = 1 -> "1"
    [] n = 2 -> "2"
    [] n = 3 -> "3"
    [] OTHER -> "0"

\* Lines 296-319: one op of the batch, normalised; the dict that is built has
\* no resolved_item key.
NormalizeOp(op) ==
  LET toClear == op.intent = "REMOVE" /\ op.to_box # "" /\ op.object_name = ""
                 /\ (op.remove_all \/ op.everything)
  IN IF toClear
     THEN [intent |-> "CLEAR_BOX", object_name |-> "", quantity |-> "",
           to_box |-> op.to_box, from_box |-> op.from_box, remove_all |-> FALSE,
           everything |-> FALSE, resolved |-> NoneItem]
     ELSE [op EXCEPT !.resolved = NoneItem]

\* Lines 320-347: whether the op contributes an entry to missing_prompts.
HasMissingPrompt(o) ==
  CASE o.intent \in {"ADD", "REMOVE"} ->
         \/ (o.object_name = "" /\ ~(o.intent = "REMOVE" /\ o.to_box # "" /\ o.everything))
         \/ (o.intent = "REMOVE" /\ ~o.remove_all /\ o.quantity = "")
    [] o.intent = "MOVE" ->
         IF o.everything THEN o.from_box = "" \/ o.to_box = ""
         ELSE o.object_name = "" \/ o.to_box = ""
    [] o.intent = "FIND" -> o.object_name = "" /\ ~(o.everything /\ o.to_box # "")
    [] o.intent \in {"CLEAR_BOX", "ADD_BOX", "REMOVE_BOX"} -> o.to_box = ""
    [] OTHER -> FALSE

_required_fields(o) ==
  CASE o.intent = "ADD" -> <<"object_name">>
    [] o.intent = "REMOVE" -> <<"object_name", "quantity">>
    [] o.intent = "MOVE" ->
         IF o.everything THEN <<"from_box", "to_box">> ELSE <<"object_name", "to_box">>
    [] o.intent = "FIND" -> <<"object_name">>
    [] o.intent \in {"CLEAR_BOX", "ADD_BOX", "REMOVE_BOX"} -> <<"to_box">>
    [] OTHER -> <<>>

\* Lines 399-404: the fields the loop skips because the op holds a value.
AlreadyHeld(o, fld) ==
  \/ (fld = "object_name" /\ o.object_name # "")
  \/ (fld = "quantity" /\ o.quantity # "")
  \/ (fld = "to_box" /\ o.to_box # "")

ItemPhrase(o) == IF o.object_name = "" THEN "the item" ELSE o.object_name

\* Lines 411-418: the REMOVE quantity lookahead.
LookaheadOne(o, st, ix) ==
  LET small(concrete) == concrete # NoneItem /\ concrete.qty <= 1
  IN small(resolve_semantic_to_store_item(ItemPhrase(o), st, ix))

\* Lines 397-434: from position (i, p) of the double loop, the next field that
\* is asked; the lookahead fills quantities on the way.
RECURSIVE Scan(_, _, _, _, _)
Scan(nz, i, p, st, ix) ==
  IF i > Len(nz) THEN [nz |-> nz, i |-> i, p |-> p, done |-> TRUE]
  ELSE LET rf == _required_fields(nz[i])
       IN IF p > Len(rf) THEN Scan(nz, i + 1, 1, st, ix)
          ELSE IF AlreadyHeld(nz[i], rf[p]) THEN Scan(nz, i, p + 1, st, ix)
          ELSE IF rf[p] = "quantity" /\ nz[i].intent = "REMOVE"
                  /\ LookaheadOne(nz[i], st, ix)
               THEN Scan([nz EXCEPT ![i].quantity = "1"], i, p + 1, st, ix)
               ELSE [nz |-> nz, i |-> i, p |-> p, done |-> FALSE]

\* _extract_box_name_from_reply on the replies of the model.
_extract_box_name_from_reply(r) ==
  CASE r \in {"bee", "b", "B"} -> "B"
    [] r \in {"see", "c", "C"} -> "C"
    [] r \in {"a", "A"} -> "A"
    [] r \in {"z", "Z"} -> "Z"
    [] OTHER -> r

\* _resolve_spoken_box_name on the replies of the model: the extracted name
\* when it exists, else a case-insensitive match, else None ("").
_resolve_spoken_box_name(spoken, bx) ==
  LET extracted == _extract_box_name_from_reply(spoken)
      ci == {b \in bx : BoxLower(b) = BoxLower(spoken)}
  IN IF extracted # "" /\ extracted \in bx THEN extracted
     ELSE IF ci # {} THEN CHOOSE b \in ci : TRUE
          ELSE ""

\* _parse_quantity on the replies of the model ("" for None).
_parse_quantity(ans) ==
  CASE ans = "two" -> "2"
    [] ans \in {"1", "2", "3"} -> ans
    [] OTHER -> ""

\* AnswerAligner.normalize returns a dict with these keys (0 and "" for None);
\* its values are whatever the language model answered, after the type checks.
NormNone ==
  [remove_all |-> FALSE, has_quantity |-> FALSE, quantity |-> 0, box_name |-> "",
   object_name |-> ""]

\* A reply at a prompt: the transcript _ask_slot returns ("" after two bad
\* transcripts) and the aligner's result for it.
Replies ==
  { [text |-> "", norm |-> NormNone],
    [text |-> "bee", norm |-> [NormNone EXCEPT !.box_name = "b"]],
    [text |-> "bee", norm |-> NormNone],
    [text |-> "Z", norm |-> NormNone],
    [text |-> "two", norm |-> [NormNone EXCEPT !.has_quantity = TRUE, !.quantity = 2]],
    [text |-> "two", norm |-> NormNone],
    [text |-> "all", norm |-> [NormNone EXCEPT !.remove_all = TRUE]],
    [text |-> "all", norm |-> NormNone],
    [text |-> "nut", norm |-> [NormNone EXCEPT !.object_name = "nut"]] }

\* Lines 440-489: one answered attempt for field fld of op o; filled says
\* whether the attempt ends the loop of the field.
ApplyAnswer(o, fld, rep) ==
  LET norm == rep.norm
      ans == rep.text
      viaBox == _extract_box_name_from_reply(ans)
  IN IF norm.remove_all THEN [op |-> [o EXCEPT !.remove_all = TRUE], filled |-> TRUE]
     ELSE IF fld = "to_box" /\ norm.box_name # ""
          THEN [op |-> [o EXCEPT !.to_box = _extract_box_name_from_reply(norm.box_name)],
                filled |-> TRUE]
     ELSE IF fld = "quantity" /\ norm.has_quantity
          THEN [op |-> [o EXCEPT !.quantity = StrOf(norm.quantity)], filled |-> TRUE]
     ELSE IF fld = "object_name" /\ norm.object_name # ""
          THEN [op |-> [o EXCEPT !.object_name = norm.object_name], filled |-> TRUE]
     ELSE IF fld = "to_box"
          THEN IF viaBox # "" THEN [op |-> [o EXCEPT !.to_box = viaBox], filled |-> TRUE]
               ELSE [op |-> o, filled |-> FALSE]
     ELSE IF fld = "from_box"
          THEN IF viaBox # "" THEN [op |-> [o EXCEPT !.from_box = viaBox], filled |-> TRUE]
               ELSE [op |-> o, filled |-> FALSE]
     ELSE IF fld = "quantity"
          THEN IF ans \in {"all", "everything"}
               THEN [op |-> [o EXCEPT !.remove_all = TRUE], filled |-> TRUE]
               ELSE IF _parse_quantity(ans) # ""
                    THEN [op |-> [o EXCEPT !.quantity = _parse_quantity(ans)], filled |-> TRUE]
                    ELSE [op |-> o, filled |-> FALSE]
     ELSE [op |-> [o EXCEPT !.object_name = ans], filled |-> TRUE]

\* The result of executing one op of the batch (one iteration of the loop at
\* line 498): ctl is "next" (the loop goes on), "fail" (return False, ...),
\* "return" (return True early), "raise" (an exception leaves the method);
\* called says whether an InventoryService call was made for the op.
ExecRet(st, ix, bx, nid, ctl, sg, ctx, frag, called) ==
  [store |-> st, index |-> ix, boxes |-> bx, nextId |-> nid, ctl |-> ctl, sugg |-> sg,
   ctx |-> ctx, frag |-> frag, called |-> called]

NoCtx == [intent |-> "", object_name |-> ""]

\* Lines 626-637 and 666-676: an unresolved REMOVE or MOVE.
Unresolved(op, sg, multi_mode, st, ix, bx, nid) ==
  IF multi_mode THEN ExecRet(st, ix, bx, nid, "next", <<>>, NoCtx, "", TRUE)
  ELSE IF sg # <<>>
       THEN ExecRet(st, ix, bx, nid, "fail", sg,
                    [intent |-> op.intent, object_name |-> op.object_name], "", TRUE)
       ELSE ExecRet(st, ix, bx, nid, "fail", <<>>, NoCtx, "", TRUE)

\* Lines 505-603. rep is the reply to the box prompt, if it is asked.
ExecAdd(op, rep, f, st, ix, bx, nid) ==
  LET turns(r, a, d) == r @@ [asks |-> a, adds |-> d]
      skip == ExecRet(st, ix, bx, nid, "next", <<>>, NoCtx, "", TRUE)
      retried(r2) ==
        IF r2.exc = ""
        THEN turns(ExecRet(r2.store, r2.index, bx, r2.nextId, "next", <<>>, NoCtx,
                           "added", TRUE), 1, 2)
        ELSE turns(skip, 1, 2)
      prompted(qty, mapped_box) ==
        IF rep.text = "" THEN turns(skip, 1, 1)
        ELSE IF mapped_box = "" \/ (bx # {} /\ mapped_box \notin bx) THEN turns(skip, 1, 1)
        ELSE IF f = "retryraise"
             THEN turns(ExecRet(st, ix, bx, nid, "raise", <<>>, NoCtx, "", TRUE), 1, 2)
             ELSE retried(add_item(op.object_name, qty, mapped_box, st, ix, bx, nid, f))
      mapped(qty, m0, fb) ==
        prompted(qty, IF m0 # "" /\ m0 \notin bx /\ fb # "" THEN fb ELSE m0)
      heard(qty, m0) == mapped(qty, m0, _resolve_spoken_box_name(m0, bx))
      first(qty, r1) ==
        IF r1.exc = ""
        THEN turns(ExecRet(r1.store, r1.index, bx, r1.nextId, "next", <<>>, NoCtx,
                           IF r1.isNew THEN "added" ELSE "incremented", TRUE), 0, 1)
        ELSE IF r1.exc # "BoxNotFound"
             THEN turns(ExecRet(r1.store, r1.index, bx, nid, "next", <<>>, NoCtx, "", TRUE),
                        0, 1)
        ELSE heard(qty, IF rep.norm.box_name # ""
                        THEN _extract_box_name_from_reply(rep.norm.box_name)
                        ELSE _extract_box_name_from_reply(rep.text))
      run(qty, nm) == first(qty, add_item(nm, qty, op.to_box, st, ix, bx, nid, f))
  IN IF f = "raise"
     THEN turns(ExecRet(st, ix, bx, nid, "raise", <<>>, NoCtx, "", TRUE), 0, 1)
     ELSE run(IF op.quantity = "" THEN 1 ELSE IntOf(op.quantity),
              IF op.resolved # NoneItem THEN op.resolved.name ELSE op.object_name)

\* Whether ExecAdd asks the box prompt.
AddPrompts(op, f, st, ix, bx, nid) ==
  /\ f # "raise"
  /\ add_item(IF op.resolved # NoneItem THEN op.resolved.name ELSE op.object_name,
              IF op.quantity = "" THEN 1 ELSE IntOf(op.quantity),
              op.to_box, st, ix, bx, nid, f).exc = "BoxNotFound"

\* Lines 604-644. The lookahead of lines 616-622 sets the quantity text to "1",
\* which int(qty_str or 1) yields anyway.
ExecRemove(op, multi_mode, f, st, ix, bx, nid) ==
  LET done(r) ==
        IF r.item = NoneItem
        THEN IF op.resolved # NoneItem
             THEN ExecRet(r.store, r.index, bx, nid, "raise", <<>>, NoCtx, "", TRUE)
             ELSE Unresolved(op, r.sugg, multi_mode, r.store, r.index, bx, nid)
        ELSE ExecRet(r.store, r.index, bx, nid, "next", <<>>, NoCtx,
                     IF r.item.qty = 0 THEN "removed all" ELSE "removed", TRUE)
      counted(nm, qty_str) ==
        done(remove_item(nm, IF qty_str = "" THEN 1 ELSE IntOf(qty_str), op.resolved,
                         st, ix, f))
      looked(nm, concrete) ==
        counted(nm, IF concrete # NoneItem /\ concrete.qty <= 1 THEN "1" ELSE "")
      run(nm) ==
        IF op.remove_all THEN done(remove_item_all(nm, op.resolved, st, ix, f))
        ELSE IF op.resolved = NoneItem /\ op.quantity = ""
             THEN looked(nm, resolve_semantic_to_store_item(op.object_name, st, ix))
             ELSE counted(nm, op.quantity)
  IN IF f = "raise" THEN ExecRet(st, ix, bx, nid, "raise", <<>>, NoCtx, "", TRUE)
     ELSE run(IF op.resolved # NoneItem THEN op.resolved.name ELSE op.object_name)

\* Lines 645-679. from_box is the variable left by the loop at line 296.
ExecMove(op, from_box, multi_mode, f, st, ix, bx, nid) ==
  LET all(ra) ==
        IF ra.exc # "" THEN ExecRet(st, ix, bx, nid, "next", <<>>, NoCtx, "", TRUE)
        ELSE ExecRet(ra.store, ra.index, bx, nid, "next", <<>>, NoCtx,
                     IF ra.count > 0 THEN "moved items" ELSE "", TRUE)
      one(r) ==
        IF r.exc # "" THEN ExecRet(st, ix, bx, nid, "raise", <<>>, NoCtx, "", TRUE)
        ELSE IF r.item = NoneItem
             THEN IF op.resolved # NoneItem
                  THEN ExecRet(r.store, r.index, bx, nid, "raise", <<>>, NoCtx, "", TRUE)
                  ELSE Unresolved(op, r.sugg, multi_mode, r.store, r.index, bx, nid)
             ELSE ExecRet(r.store, r.index, bx, nid, "next", <<>>, NoCtx, "moved", TRUE)
  IN IF f = "raise" THEN ExecRet(st, ix, bx, nid, "raise", <<>>, NoCtx, "", TRUE)
     ELSE IF op.everything /\ from_box # "" /\ op.to_box # ""
          THEN all(move_all_items_between_boxes(from_box, op.to_box, st, ix, bx, f))
          ELSE one(move_item(IF op.resolved # NoneItem THEN op.resolved.name
                             ELSE op.object_name,
                             op.to_box, from_box, op.resolved, st, ix, bx, f))

\* An unresolved FIND hands its suggestions back, as REMOVE and MOVE do.
ExecFindAsking(op, multi_mode, f, st, ix, bx, nid) ==
  LET found(r) ==
        IF r.item = NoneItem
        THEN IF multi_mode THEN ExecRet(st, ix, bx, nid, "next", <<>>, NoCtx, "", TRUE)
             ELSE ExecRet(st, ix, bx, nid, "fail", r.sugg, NoCtx, "", TRUE)
        ELSE ExecRet(st, ix, bx, nid, "next", <<>>, NoCtx, "found", TRUE)
  IN IF f = "raise" THEN ExecRet(st, ix, bx, nid, "raise", <<>>, NoCtx, "", TRUE)
     ELSE IF op.everything /\ op.to_box # ""
          THEN ExecRet(st, ix, bx, nid, "next", <<>>, NoCtx, "", FALSE)
          ELSE found(find_item_by_semantic(op.object_name, ix))

\* Lines 680-760: FIND reads and speaks; it writes nothing.
ExecFind(op, multi_mode, f, st, ix, bx, nid) ==
  LET r == find_item_by_semantic(op.object_name, ix)
  IN IF f = "raise" THEN ExecRet(st, ix, bx, nid, "raise", <<>>, NoCtx, "", TRUE)
     ELSE IF op.everything /\ op.to_box # ""
          THEN ExecRet(st, ix, bx, nid, "next", <<>>, NoCtx, "", FALSE)
     ELSE IF r.item = NoneItem
          THEN ExecRet(st, ix, bx, nid, IF multi_mode THEN "next" ELSE "return",
                       <<>>, NoCtx, "", TRUE)
          ELSE ExecRet(st, ix, bx, nid, "next", <<>>, NoCtx, "found", TRUE)

\* Lines 761-767.
ExecClearBox(op, f, st, ix, bx, nid) ==
  LET told(r, c) == r @@ [count |-> c]
      cleared(r) ==
        IF f = "raise" \/ r.exc # ""
        THEN told(ExecRet(st, ix, bx, nid, "raise", <<>>, NoCtx, "", TRUE), 0)
        ELSE told(ExecRet(r.store, r.index, bx, nid, "next", <<>>, NoCtx, "cleared", TRUE),
                  r.count)
  IN IF op.to_box = "" THEN told(ExecRet(st, ix, bx, nid, "fail", <<>>, NoCtx, "", FALSE), 0)
     ELSE cleared(clear_box_items(op.to_box, st, ix, bx, f))

\* Lines 768-783. The early return has three values where the callers unpack
\* four: the unpacking raises ValueError in the caller.
ExecAddBox(op, f, st, ix, bx, nid) ==
  IF op.to_box = "" THEN ExecRet(st, ix, bx, nid, "raise", <<>>, NoCtx, "", FALSE)
  ELSE IF f = "raise" THEN ExecRet(st, ix, bx, nid, "next", <<>>, NoCtx, "", TRUE)
       ELSE ExecRet(st, ix, add_box(op.to_box, bx).boxes, nid, "next", <<>>, NoCtx,
                    "box ready", TRUE)

\* Lines 784-809.
ExecRemoveBox(op, f, st, ix, bx, nid) ==
  LET removed(r) ==
        IF f = "raise" \/ r.exc # ""
        THEN ExecRet(st, ix, bx, nid, "next", <<>>, NoCtx, "", TRUE)
        ELSE ExecRet(st, ix, r.boxes, nid, "next", <<>>, NoCtx,
                     IF r.ret THEN "removed box" ELSE "", TRUE)
  IN IF op.to_box = "" THEN ExecRet(st, ix, bx, nid, "raise", <<>>, NoCtx, "", FALSE)
     ELSE removed(remove_box_if_empty(op.to_box, st, bx, f))

\* Lines 498-809: the dispatch on the intent.
ExecOne(op, from_box, multi_mode, rep, f, st, ix, bx, nid) ==
  CASE op.intent = "ADD" -> ExecAdd(op, rep, f, st, ix, bx, nid)
    [] op.intent = "REMOVE" -> ExecRemove(op, multi_mode, f, st, ix, bx, nid)
    [] op.intent = "MOVE" -> ExecMove(op, from_box, multi_mode, f, st, ix, bx, nid)
    [] op.intent = "FIND" -> ExecFind(op, multi_mode, f, st, ix, bx, nid)
    [] op.intent = "CLEAR_BOX" -> ExecClearBox(op, f, st, ix, bx, nid)
    [] op.intent = "ADD_BOX" -> ExecAddBox(op, f, st, ix, bx, nid)
    [] op.intent = "REMOVE_BOX" -> ExecRemoveBox(op, f, st, ix, bx, nid)
    [] OTHER -> ExecRet(st, ix, bx, nid, "next", <<>>, NoCtx, "", FALSE)

\* Lines 1097-1142 of _ask_for_suggestion. The name test at line 1132 is
\* "r in name or canonical_name", true whenever the canonical name is not empty.
DigitOf(r) ==
  CASE r = "1" -> 1
    [] r = "2" -> 2
    [] r = "9" -> 9
    [] OTHER -> 0

NameContains(n, r) == n = r

SelectSuggestion(r, sg) ==
  LET idx == DigitOf(r)
      hits == {k \in 1..Len(sg) : NameContains(sg[k].name, r) \/ sg[k].name # ""}
      best == CHOOSE k \in hits : \A j \in hits :
                sg[k].score > sg[j].score \/ (sg[k].score = sg[j].score /\ k <= j)
  IN IF r = "" THEN NoneItem
     ELSE IF idx >= 1 /\ idx <= Len(sg) THEN ItemOfMatch(sg[idx])
     ELSE IF hits # {} THEN ItemOfMatch(sg[best])
          ELSE NoneItem

SuggestionReplies == {"", "1", "2", "9", "bolt", "qqq"}

\* Lines 148-164: the op returned for re-processing.
NewOp(intent, sel, bx) ==
  [intent |-> intent, object_name |-> sel.name, quantity |-> "1",
   to_box |-> IF sel.box # "" /\ sel.box \in bx THEN sel.box ELSE "",
   from_box |-> "", remove_all |-> FALSE, everything |-> FALSE, resolved |-> sel]

\* ------------------------------------------------------------------ state
VARIABLES
  pc,          \* position of the pipeline run
  ops,         \* the op list of handle_voice_intent
  start,       \* offset of the current chunk
  reentry,     \* TRUE in MainWindow's re-processing of a selected op
  normalized,  \* the normalised ops of the current batch
  from_box,    \* the local from_box left by the normalisation loop
  sf,          \* slot-filling position: op i, field p, attempts made
  execIdx,     \* index in the batch of the op executed next
  summary,     \* summary_parts of the batch
  bres,        \* the tuple _process_ops_batch returned
  store, index, boxes, nextId,
  faults,      \* collaborator faults injected so far
  outcome,     \* how the run ended
  utter,       \* what extraction yields for the utterance
  lastExec,    \* history: the op executed last, and the state before it
  chunkSnap,   \* history: store, index and boxes when the batch started
  execLog,     \* history: positions in ops of the ops executed, in order
  said,        \* history: the last prompt's reply, times spoken, last speak call
  lock, wake,  \* VoiceOrchestrator: whether _lock is held, each wake event's record
  nlu,         \* the NLU front end: collaborator answer and results
  cz,          \* CanonicalizeService: a name and its normalisations
  ui           \* MainWindow: the voice button, the recorder and the handlers running

pipeVars == <<pc, ops, start, reentry, normalized, from_box, sf, execIdx, summary, bres,
              store, index, boxes, nextId, faults, outcome, utter, lastExec,
              chunkSnap, execLog, said>>

wakeVars == <<lock, wake>>

vars == <<pipeVars, wakeVars, nlu, cz, ui>>

\* ----------------------------------------------------------------- inputs
\* Ops as MultiIntentExtractor.extract or IntentParser.parse return them.
OpPool ==
  { MkOp("ADD", "tape", "1", "A", "", FALSE, FALSE),
    MkOp("ADD", "nuts", "2", "B", "", FALSE, FALSE),
    MkOp("ADD", "tape", "", "", "", FALSE, FALSE),
    MkOp("ADD", "", "1", "A", "", FALSE, FALSE),
    MkOp("ADD", "tape", "1", "Z", "", FALSE, FALSE),
    MkOp("ADD", "tape", "0", "A", "", FALSE, FALSE),
    MkOp("ADD", "nut", "-2", "B", "", FALSE, FALSE),
    MkOp("ADD", "nutt", "1", "Z", "", FALSE, FALSE),
    MkOp("REMOVE", "nut", "-1", "", "", FALSE, FALSE),
    MkOp("REMOVE", "nut", "1", "", "", FALSE, FALSE),
    MkOp("REMOVE", "nut", "2", "", "", FALSE, FALSE),
    MkOp("REMOVE", "nut", "3", "", "", FALSE, FALSE),
    MkOp("REMOVE", "nut", "", "", "", FALSE, FALSE),
    MkOp("REMOVE", "nut", "", "", "", TRUE, FALSE),
    MkOp("REMOVE", "bol", "1", "", "", FALSE, FALSE),
    MkOp("REMOVE", "", "", "", "", FALSE, FALSE),
    MkOp("REMOVE", "", "", "A", "", TRUE, TRUE),
    MkOp("MOVE", "nut", "", "B", "", FALSE, FALSE),
    MkOp("MOVE", "nut", "", "A", "", FALSE, FALSE),
    MkOp("MOVE", "nut", "", "B", "B", FALSE, FALSE),
    MkOp("MOVE", "nut", "", "", "", FALSE, FALSE),
    MkOp("MOVE", "nut", "", "Z", "", FALSE, FALSE),
    MkOp("MOVE", "bol", "", "B", "", FALSE, FALSE),
    MkOp("MOVE", "", "", "B", "A", FALSE, TRUE),
    MkOp("MOVE", "", "", "B", "", FALSE, TRUE),
    MkOp("MOVE", "", "", "A", "", FALSE, TRUE),
    MkOp("FIND", "nut", "", "", "", FALSE, FALSE),
    MkOp("FIND", "bol", "", "", "", FALSE, FALSE),
    MkOp("FIND", "", "", "A", "", FALSE, TRUE),
    MkOp("FIND", "", "", "", "", FALSE, FALSE),
    MkOp("CLEAR_BOX", "", "", "A", "", FALSE, FALSE),
    MkOp("CLEAR_BOX", "", "", "", "", FALSE, FALSE),
    MkOp("CLEAR_BOX", "", "", "Z", "", FALSE, FALSE),
    MkOp("ADD_BOX", "", "", "c", "", FALSE, FALSE),
    MkOp("ADD_BOX", "", "", "a", "", FALSE, FALSE),
    MkOp("ADD_BOX", "", "", "", "", FALSE, FALSE),
    MkOp("REMOVE_BOX", "", "", "A", "", FALSE, FALSE),
    MkOp("REMOVE_BOX", "", "", "", "", FALSE, FALSE),
    MkOp("REMOVE_BOX", "", "", "Z", "", FALSE, FALSE) }

PairPool ==
  { MkOp("ADD", "tape", "1", "A", "", FALSE, FALSE),
    MkOp("ADD", "", "1", "A", "", FALSE, FALSE),
    MkOp("REMOVE", "nut", "1", "", "", FALSE, FALSE),
    MkOp("REMOVE", "nut", "", "", "", FALSE, FALSE),
    MkOp("REMOVE", "bol", "1", "", "", FALSE, FALSE),
    MkOp("MOVE", "nut", "", "B", "", FALSE, FALSE),
    MkOp("MOVE", "bolt", "", "A", "B", FALSE, FALSE),
    MkOp("MOVE", "nut", "", "B", "B", FALSE, FALSE),
    MkOp("MOVE", "nut", "", "Z", "", FALSE, FALSE),
    MkOp("MOVE", "", "", "B", "", FALSE, TRUE),
    MkOp("CLEAR_BOX", "", "", "", "", FALSE, FALSE),
    MkOp("CLEAR_BOX", "", "", "B", "", FALSE, FALSE),
    MkOp("REMOVE_BOX", "", "", "B", "", FALSE, FALSE),
    MkOp("FIND", "", "", "", "", FALSE, FALSE) }

FirstChunk ==
  << MkOp("ADD", "tape", "1", "A", "", FALSE, FALSE),
     MkOp("REMOVE", "nut", "1", "", "", FALSE, FALSE),
     MkOp("MOVE", "bolt", "", "A", "", FALSE, FALSE),
     MkOp("FIND", "nut", "", "", "", FALSE, FALSE),
     MkOp("ADD_BOX", "", "", "c", "", FALSE, FALSE) >>

LongLists ==
  { FirstChunk \o << MkOp("CLEAR_BOX", "", "", "", "", FALSE, FALSE),
                     MkOp("FIND", "nut", "", "", "", FALSE, FALSE),
                     MkOp("ADD_BOX", "", "", "c", "", FALSE, FALSE),
                     MkOp("FIND", "bolt", "", "", "", FALSE, FALSE),
                     MkOp("REMOVE_BOX", "", "", "Z", "", FALSE, FALSE),
                     MkOp("REMOVE", "tape", "1", "", "", FALSE, FALSE) >>,
    FirstChunk \o <<MkOp("REMOVE", "bol", "1", "", "", FALSE, FALSE)>>,
    FirstChunk \o <<MkOp("MOVE", "tape", "", "", "", FALSE, FALSE)>>,
    FirstChunk \o <<MkOp("REMOVE", "tape", "", "", "", FALSE, FALSE),
                    MkOp("ADD", "bolt", "1", "", "", FALSE, FALSE)>> }

Utterances ==
  {<<>>} \cup {<<o>> : o \in OpPool} \cup {<<a, b>> : a \in PairPool, b \in PairPool}
  \cup LongLists

InitStores ==
  { [store |-> (1 :> [name |-> "nut", qty |-> q, box |-> "A"])
               @@ (2 :> [name |-> "bolt", qty |-> 1, box |-> "B"]),
     index |-> (1 :> [name |-> "nut", box |-> "A"])
               @@ (2 :> [name |-> "bolt", box |-> "B"]),
     nextId |-> 3] : q \in 1..MaxQty }
  \cup { [store |-> <<>>, index |-> <<>>, nextId |-> 1] }

Faults == {"none", "raise", "delfail", "updnone"}

\* "retryraise": the store call of the second add_item of an ADD (line 587)
\* raises RuntimeError; it can happen only when the first one asked for a box.
RetryFaults(op, st, ix, bx, nid) ==
  IF op.intent = "ADD" /\ AddPrompts(op, "none", st, ix, bx, nid)
  THEN {"retryraise"} ELSE {}

Silence == [text |-> "", norm |-> NormNone]

NoExec ==
  [op |-> MkOp("", "", "", "", "", FALSE, FALSE), called |-> FALSE, ctl |-> "",
   f |-> "none", pos |-> 0, store |-> <<>>, index |-> <<>>, boxes |-> {},
   frag |-> "", asks |-> 0, adds |-> 0, count |-> 0, from_box |-> "", multi |-> FALSE]

NoRes == [ok |-> TRUE, sugg |-> <<>>, ctx |-> NoCtx]

\* Nothing was asked and nothing was spoken yet.
NoSaid == [reply |-> "", spoken |-> 0, tts |-> "ok"]

NoDraft == [intent |-> "", object_name |-> "", box_name |-> ""]

WakeIdle ==
  [w \in 1..MaxWakes |->
     [pc |-> "idle", did |-> 0, busy |-> FALSE, exc |-> FALSE, draft |-> NoDraft]]

NoContent == [fence |-> "none", json |-> "none", obj |-> <<>>, els |-> <<>>]

\* The button unchecked, no stream open, no handler running.
UiIdle == [checked |-> FALSE, stream |-> FALSE, stack |-> <<>>, clicks |-> 0]

CzIdle == [pc |-> "idle", name |-> <<>>, once |-> <<>>, twice |-> <<>>]

\* Item names given to the canonicalizer: up to MaxTokens of these tokens.
NameInputs ==
  LET pool ==
        { <<"t", "h", "e">>, <<"T", "h", "e">>, <<"s", "e", "t">>, <<"o", "f">>,
          <<"h", "o", "r", "s", "e", "s">>, <<"g", "l", "a", "s", "s", "e", "s">>,
          <<"b", "o", "x">> }
  IN UNION { [1..n -> pool] : n \in 0..MaxTokens }

NluIdle ==
  [pc |-> "idle", text |-> "", content |-> NoContent, result |-> <<>>,
   draft |-> MkOp("", "", "", "", "", FALSE, FALSE), ops |-> <<>>]

Init ==
  /\ pc = "extract"
  /\ utter \in Utterances
  /\ ops = <<>>
  /\ start = 0
  /\ reentry = FALSE
  /\ normalized = <<>>
  /\ from_box = ""
  /\ sf = [i |-> 0, p |-> 0, n |-> 0]
  /\ execIdx = 0
  /\ summary = <<>>
  /\ bres = NoRes
  /\ \E s0 \in InitStores :
       /\ store = s0.store
       /\ index = s0.index
       /\ nextId = s0.nextId
  /\ boxes = {"A", "B"}
  /\ faults = 0
  /\ outcome = ""
  /\ lastExec = NoExec
  /\ chunkSnap = [store |-> <<>>, index |-> <<>>, boxes |-> {}]
  /\ execLog = <<>>
  /\ said = NoSaid
  /\ lock = FALSE
  /\ wake = WakeIdle
  /\ nlu = NluIdle
  /\ cz = CzIdle
  /\ ui = UiIdle

\* --------------------------------------------------------------- pipeline
\* handle_voice_intent, lines 71-100: the op list, or the apology.
Extract ==
  /\ pc = "extract"
  /\ ops' = utter
  /\ IF utter = <<>>
     THEN pc' = "done" /\ outcome' = "unknown"
     ELSE pc' = "chunk" /\ outcome' = outcome
  /\ UNCHANGED <<start, reentry, normalized, from_box, sf, execIdx, summary, bres, store,
                 index, boxes, nextId, faults, utter, lastExec, chunkSnap, execLog, said>>
  /\ UNCHANGED <<wakeVars, nlu, cz, ui>>

\* After a field is filled, or at the start of the batch: on to the next
\* question, or to the execution phase.
Proceed(nz, i, p) ==
  LET goto(sc) ==
        /\ normalized' = sc.nz
        /\ IF sc.done
           THEN pc' = "exec" /\ execIdx' = 1 /\ sf' = [i |-> 0, p |-> 0, n |-> 0]
           ELSE pc' = "slot" /\ execIdx' = 0 /\ sf' = [i |-> sc.i, p |-> sc.p, n |-> 0]
  IN goto(Scan(nz, i, p, store, index))

ChunkOf(o, st) == SubSeq(o, st + 1, Min(st + CHUNK, Len(o)))

\* The loop head at line 104 and _process_ops_batch lines 294-349.
StartChunk ==
  /\ pc = "chunk"
  /\ IF start >= Len(ops)
     THEN /\ pc' = "done"
          /\ outcome' = "completed"
          /\ UNCHANGED <<normalized, from_box, sf, execIdx, summary, chunkSnap>>
     ELSE LET begin(batch, nz) ==
                /\ from_box' = batch[Len(batch)].from_box
                /\ summary' = <<>>
                /\ chunkSnap' = [store |-> store, index |-> index, boxes |-> boxes]
                /\ outcome' = outcome
                /\ IF \E k \in 1..Len(nz) : HasMissingPrompt(nz[k])
                   THEN Proceed(nz, 1, 1)
                   ELSE /\ normalized' = nz
                        /\ pc' = "exec"
                        /\ execIdx' = 1
                        /\ sf' = [i |-> 0, p |-> 0, n |-> 0]
              normalise(batch) ==
                begin(batch, [k \in 1..Len(batch) |-> NormalizeOp(batch[k])])
          IN normalise(ChunkOf(ops, start))
  /\ UNCHANGED <<ops, start, reentry, bres, store, index, boxes, nextId, faults, utter,
                 lastExec, execLog, said>>
  /\ UNCHANGED <<wakeVars, nlu, cz, ui>>

retries_per_field(batchLen) == Max(2, batchLen)

\* The loop of the field ends without the return: the batch is executed.
SlotFallsThrough(res) == [pc |-> "exec", execIdx |-> 1, bres |-> NoRes]

\* Line 491: a field that is still unfilled after its attempts ends the batch.
SlotExhausted(res) == [pc |-> "after", execIdx |-> 0, bres |-> res]

\* History: the field asked last has used up its attempts.
Exhausted == sf.i > 0 /\ sf.n >= retries_per_field(Len(normalized))

\* Lines 436-491: one attempt of the question loop of the current field.
\* _ask_slot (lines 819-849) speaks the question and captures a transcript k
\* times: once when the first transcript is usable, twice when it is not, and
\* not at all when tts.speak raises, which _ask_slot answers with "".
AskField ==
  /\ pc = "slot"
  /\ \E rep \in Replies, k \in 0..2 :
       /\ (k = 0 => rep = Silence /\ faults < MaxFaults)
       /\ (k = 1 => rep.text # "")
       /\ faults' = IF k = 0 THEN faults + 1 ELSE faults
       /\ said' = [reply |-> rep.text,
                   spoken |-> (IF sf.n = 0 THEN 0 ELSE said.spoken) + k,
                   tts |-> IF k = 0 THEN "swallowed" ELSE "ok"]
       /\ LET give_up(x) ==
                /\ pc' = x.pc
                /\ execIdx' = x.execIdx
                /\ bres' = x.bres
                /\ sf' = [sf EXCEPT !.n = sf.n + 1]
                /\ UNCHANGED normalized
              answered(res) ==
                IF rep.text # "" /\ res.filled
                THEN /\ Proceed([normalized EXCEPT ![sf.i] = res.op], sf.i, sf.p + 1)
                     /\ bres' = bres
                ELSE IF sf.n + 1 < retries_per_field(Len(normalized))
                     THEN /\ sf' = [sf EXCEPT !.n = sf.n + 1]
                          /\ UNCHANGED <<pc, normalized, execIdx, bres>>
                     ELSE give_up(SlotExhausted([ok |-> FALSE, sugg |-> <<>>, ctx |-> NoCtx]))
          IN answered(ApplyAnswer(normalized[sf.i],
                                  _required_fields(normalized[sf.i])[sf.p], rep))
  /\ UNCHANGED <<ops, start, reentry, from_box, summary, store, index, boxes, nextId,
                 outcome, utter, lastExec, chunkSnap, execLog>>
  /\ UNCHANGED <<wakeVars, nlu, cz, ui>>

\* Lines 498-814: one iteration of the execution loop, and the return after it.
ExecOp ==
  /\ pc = "exec"
  /\ \E f \in Faults \cup RetryFaults(normalized[execIdx], store, index, boxes, nextId) :
       /\ (f # "none" => faults < MaxFaults)
       /\ \E rep \in (IF normalized[execIdx].intent = "ADD"
                         /\ AddPrompts(normalized[execIdx], f, store, index, boxes, nextId)
                      THEN Replies ELSE {Silence}) :
            LET executed(op, r) ==
                  /\ store' = r.store
                  /\ index' = r.index
                  /\ boxes' = r.boxes
                  /\ nextId' = r.nextId
                  /\ faults' = IF f = "none" THEN faults ELSE faults + 1
                  /\ lastExec' = [op |-> op, called |-> r.called, ctl |-> r.ctl, f |-> f,
                                  pos |-> IF reentry THEN 0 ELSE start + execIdx,
                                  store |-> store, index |-> index, boxes |-> boxes,
                                  frag |-> r.frag,
                                  asks |-> IF op.intent = "ADD" THEN r.asks ELSE 0,
                                  adds |-> IF op.intent = "ADD" THEN r.adds ELSE 0,
                                  count |-> IF op.intent = "CLEAR_BOX" THEN r.count ELSE 0,
                                  from_box |-> from_box,
                                  multi |-> Len(normalized) > 1]
                  /\ execLog' = IF reentry THEN execLog
                                ELSE Append(execLog, start + execIdx)
                  /\ CASE r.ctl = "raise" ->
                            /\ pc' = "raised"
                            /\ outcome' = "raised"
                            /\ UNCHANGED <<execIdx, summary, bres>>
                       [] r.ctl = "fail" ->
                            /\ pc' = "after"
                            /\ bres' = [ok |-> FALSE, sugg |-> r.sugg, ctx |-> r.ctx]
                            /\ summary' = <<>>
                            /\ UNCHANGED <<execIdx, outcome>>
                       [] r.ctl = "return" ->
                            /\ pc' = "after"
                            /\ bres' = NoRes
                            /\ summary' = <<>>
                            /\ UNCHANGED <<execIdx, outcome>>
                       [] OTHER ->
                            /\ summary' = IF r.frag = "" THEN summary
                                          ELSE Append(summary, r.frag)
                            /\ outcome' = outcome
                            /\ IF execIdx = Len(normalized)
                               THEN pc' = "after" /\ bres' = NoRes /\ execIdx' = execIdx
                               ELSE pc' = "exec" /\ bres' = bres /\ execIdx' = execIdx + 1
            IN executed(normalized[execIdx],
                        ExecOne(normalized[execIdx], from_box, Len(normalized) > 1, rep, f,
                                store, index, boxes, nextId))
  /\ UNCHANGED <<ops, start, reentry, normalized, from_box, sf, utter, chunkSnap, said>>
  /\ UNCHANGED <<wakeVars, nlu, cz, ui>>

\* The next chunk starts one op early.
BatchVerdictOverlap(b, re, st) ==
  IF re THEN [pc |-> "done", outcome |-> "reprocessed", start |-> st]
  ELSE IF ~b.ok
       THEN IF b.sugg # <<>>
            THEN IF b.ctx.intent \in {"ADD", "FIND"}
                 THEN [pc |-> "chunk", outcome |-> "", start |-> st]
                 ELSE [pc |-> "suggest", outcome |-> "", start |-> st]
            ELSE [pc |-> "done", outcome |-> "cancelled", start |-> st]
       ELSE [pc |-> "chunk", outcome |-> "", start |-> st + CHUNK - 1]

\* A chunk that succeeded is taken up again.
BatchVerdictStay(b, re, st) ==
  IF re THEN [pc |-> "done", outcome |-> "reprocessed", start |-> st]
  ELSE IF ~b.ok
       THEN IF b.sugg # <<>>
            THEN IF b.ctx.intent \in {"ADD", "FIND"}
                 THEN [pc |-> "chunk", outcome |-> "", start |-> st]
                 ELSE [pc |-> "suggest", outcome |-> "", start |-> st]
            ELSE [pc |-> "done", outcome |-> "cancelled", start |-> st]
       ELSE [pc |-> "chunk", outcome |-> "", start |-> st]

\* A cancelled chunk is followed by the next chunk instead of the return.
BatchVerdictContinue(b, re, st) ==
  IF re THEN [pc |-> "done", outcome |-> "reprocessed", start |-> st]
  ELSE IF ~b.ok
       THEN IF b.sugg # <<>>
            THEN IF b.ctx.intent \in {"ADD", "FIND"}
                 THEN [pc |-> "chunk", outcome |-> "", start |-> st]
                 ELSE [pc |-> "suggest", outcome |-> "", start |-> st]
            ELSE [pc |-> "chunk", outcome |-> "cancelled", start |-> st + CHUNK]
       ELSE [pc |-> "chunk", outcome |-> "", start |-> st + CHUNK]

\* handle_voice_intent lines 114-181: what follows the tuple b that
\* _process_ops_batch returned for the chunk at offset st; in the re-processing
\* of a selected op (re), MainWindow._handle_voice_intent lines 554-560.
BatchVerdict(b, re, st) ==
  IF re THEN [pc |-> "done", outcome |-> "reprocessed", start |-> st]
  ELSE IF ~b.ok
       THEN IF b.sugg # <<>>
            THEN IF b.ctx.intent \in {"ADD", "FIND"}
                 THEN [pc |-> "chunk", outcome |-> "", start |-> st]
                 ELSE [pc |-> "suggest", outcome |-> "", start |-> st]
            ELSE [pc |-> "done", outcome |-> "cancelled", start |-> st]
       ELSE [pc |-> "chunk", outcome |-> "", start |-> st + CHUNK]

\* Lines 118-124: the intent and the name the suggestions are about; the first
\* op of the batch when the batch gave no context.
OriginalCtx(b, head) ==
  IF b.ctx.intent = "" \/ b.ctx.object_name = ""
  THEN [intent |-> head.intent, object_name |-> head.object_name]
  ELSE b.ctx

\* Whether a tts.speak call follows the batch outside any try block: the summary
\* (line 180, and MainWindow._handle_voice_intent line 557), the notice of a
\* cancelled group (line 172) and the notice of skipped suggestions (line 128).
SpeaksAfter(b, re, parts) ==
  IF re THEN b.ok /\ parts # <<>>
  ELSE IF ~b.ok THEN (b.sugg = <<>> \/ b.ctx.intent = "ADD")
       ELSE parts # <<>>

\* TextToSpeech.speak: it returns, or synthesis or playback raises.
SpeakOutcomes == {"ok", "raised"}

AfterBatch ==
  /\ pc = "after"
  /\ \E t \in SpeakOutcomes :
       LET b == [bres EXCEPT !.ctx = OriginalCtx(bres, ops[start + 1])]
           v == BatchVerdict(b, reentry, start)
       IN /\ (t = "raised" => SpeaksAfter(b, reentry, summary) /\ faults < MaxFaults)
          /\ said' = [said EXCEPT !.tts = t]
          /\ faults' = IF t = "raised" THEN faults + 1 ELSE faults
          /\ IF t = "raised"
             THEN pc' = "raised" /\ outcome' = "raised" /\ start' = start
             ELSE pc' = v.pc /\ outcome' = v.outcome /\ start' = v.start
  /\ UNCHANGED <<ops, reentry, normalized, from_box, sf, execIdx, summary, bres, store,
                 index, boxes, nextId, utter, lastExec, chunkSnap, execLog>>
  /\ UNCHANGED <<wakeVars, nlu, cz, ui>>

\* handle_voice_intent lines 138-170: the disambiguation prompt; a selection is
\* returned to MainWindow._handle_voice_intent, which re-processes the new op.
Suggest ==
  /\ pc = "suggest"
  /\ \E r \in SuggestionReplies :
       LET chosen(sel) ==
             IF sel = NoneItem
             THEN /\ pc' = "done"
                  /\ outcome' = "declined"
                  /\ UNCHANGED <<ops, start, reentry>>
             ELSE /\ pc' = "chunk"
                  /\ ops' = <<NewOp(OriginalCtx(bres, ops[start + 1]).intent, sel, boxes)>>
                  /\ start' = 0
                  /\ reentry' = TRUE
                  /\ outcome' = outcome
       IN /\ chosen(SelectSuggestion(r, bres.sugg))
          /\ said' = [reply |-> r, spoken |-> 1, tts |-> "ok"]
  /\ UNCHANGED <<normalized, from_box, sf, execIdx, summary, bres, store, index, boxes,
                 nextId, faults, utter, lastExec, chunkSnap, execLog>>
  /\ UNCHANGED <<wakeVars, nlu, cz, ui>>

Next == Extract \/ StartChunk \/ AskField \/ ExecOp \/ AfterBatch \/ Suggest

Spec == Init /\ [][Next]_vars

\* The lock is taken without looking at it.
acquire_unchecked(l) == [ok |-> TRUE, lock |-> TRUE]

\* The invocation that found the lock held waits for it.
OnBusyWait == "idle"

\* ------------------------------------------------------ VoiceOrchestrator
\* self._lock.acquire(blocking=False): whether it succeeded, and the lock after.
acquire(l) == [ok |-> ~l, lock |-> TRUE]

\* Line 33: the invocation that found the lock held returns.
OnBusy == "returned"

\* What IntentParser.parse yields for the transcript, as _on_wake reads it.
WakeDrafts ==
  { NoDraft,
    [intent |-> "ADD_BOX", object_name |-> "", box_name |-> "c"],
    [intent |-> "ADD", object_name |-> "tape", box_name |-> "A"],
    [intent |-> "REMOVE", object_name |-> "nut", box_name |-> ""],
    [intent |-> "FIND", object_name |-> "nut", box_name |-> ""] }

Body == {"record", "transcribe", "parse", "act", "speak", "finally"}

InitWake ==
  /\ pc = "off"
  /\ utter = <<>>
  /\ ops = <<>>
  /\ start = 0
  /\ reentry = FALSE
  /\ normalized = <<>>
  /\ from_box = ""
  /\ sf = [i |-> 0, p |-> 0, n |-> 0]
  /\ execIdx = 0
  /\ summary = <<>>
  /\ bres = NoRes
  /\ \E s0 \in InitStores :
       /\ store = s0.store
       /\ index = s0.index
       /\ nextId = s0.nextId
  /\ boxes = {"A", "B"}
  /\ faults = 0
  /\ outcome = ""
  /\ lastExec = NoExec
  /\ chunkSnap = [store |-> <<>>, index |-> <<>>, boxes |-> {}]
  /\ execLog = <<>>
  /\ said = NoSaid
  /\ lock = FALSE
  /\ wake = WakeIdle
  /\ nlu = NluIdle
  /\ cz = CzIdle
  /\ ui = UiIdle

wakeFrame == <<pc, ops, start, reentry, normalized, from_box, sf, execIdx, summary, bres,
               faults, outcome, utter, lastExec, chunkSnap, execLog, said, nlu, cz, ui>>

\* Lines 30-34: the wake callback starts and tries the lock.
WakeArrive(w) ==
  /\ wake[w].pc = "idle"
  /\ LET a == acquire(lock)
     IN IF a.ok
        THEN /\ lock' = a.lock
             /\ wake' = [wake EXCEPT ![w].pc = "record"]
        ELSE /\ lock' = lock
             /\ wake' = [wake EXCEPT ![w].pc = OnBusy, ![w].busy = TRUE]
  /\ UNCHANGED <<store, index, boxes, nextId>>
  /\ UNCHANGED wakeFrame

\* One collaborator call of the body that returns normally or raises.
StepOrRaise(w, here, there) ==
  /\ wake[w].pc = here
  /\ \E raises \in BOOLEAN :
       wake' = [wake EXCEPT ![w].pc = IF raises THEN "finally" ELSE there,
                            ![w].exc = raises,
                            ![w].did = wake[w].did + 1]
  /\ UNCHANGED <<lock, store, index, boxes, nextId>>
  /\ UNCHANGED wakeFrame

\* Line 35.
WakeRecord(w) == StepOrRaise(w, "record", "transcribe")

\* Line 36.
WakeTranscribe(w) == StepOrRaise(w, "transcribe", "parse")

\* Lines 37-38.
WakeParse(w) ==
  /\ wake[w].pc = "parse"
  /\ \E d \in WakeDrafts, raises \in BOOLEAN :
       wake' = [wake EXCEPT ![w].pc = IF raises THEN "finally" ELSE "act",
                            ![w].exc = raises,
                            ![w].draft = IF raises THEN NoDraft ELSE d,
                            ![w].did = wake[w].did + 1]
  /\ UNCHANGED <<lock, store, index, boxes, nextId>>
  /\ UNCHANGED wakeFrame

\* Lines 39-63: the dispatch on the intent. add_item and remove_item return
\* tuples and find_item_by_semantic a triple, so those branches raise after
\* the inventory call.
WakeAct(w) ==
  /\ wake[w].pc = "act"
  /\ LET d == wake[w].draft
         goes(raises) ==
           wake' = [wake EXCEPT ![w].pc = IF raises THEN "finally" ELSE "speak",
                                ![w].exc = raises,
                                ![w].did = wake[w].did + 1]
         added(ai) ==
           /\ store' = ai.store
           /\ index' = ai.index
           /\ nextId' = ai.nextId
           /\ boxes' = boxes
           /\ goes(TRUE)
         removed(ri) ==
           /\ store' = ri.store
           /\ index' = ri.index
           /\ UNCHANGED <<nextId, boxes>>
           /\ goes(TRUE)
     IN CASE d.intent = "ADD_BOX" /\ d.box_name # "" ->
               /\ boxes' = add_box(d.box_name, boxes).boxes
               /\ UNCHANGED <<store, index, nextId>>
               /\ goes(FALSE)
          [] d.intent = "ADD" /\ d.object_name # "" /\ d.box_name # "" ->
               added(add_item(d.object_name, 1, d.box_name, store, index, boxes, nextId,
                              "none"))
          [] d.intent = "REMOVE" /\ d.object_name # "" ->
               removed(remove_item(d.object_name, 1, NoneItem, store, index, "none"))
          [] d.intent = "FIND" /\ d.object_name # "" ->
               /\ UNCHANGED <<store, index, nextId, boxes>>
               /\ goes(TRUE)
          [] OTHER ->
               /\ UNCHANGED <<store, index, nextId, boxes>>
               /\ goes(FALSE)
  /\ UNCHANGED lock
  /\ UNCHANGED wakeFrame

\* Line 64.
WakeSpeak(w) == StepOrRaise(w, "speak", "finally")

\* The lock is released only when the body ended without an exception.
WakeReleaseOnSuccess(w) ==
  /\ wake[w].pc = "finally"
  /\ lock' = (lock /\ wake[w].exc)
  /\ wake' = [wake EXCEPT ![w].pc = IF wake[w].exc THEN "failed" ELSE "finished"]
  /\ UNCHANGED <<store, index, boxes, nextId>>
  /\ UNCHANGED wakeFrame

\* Lines 65-66: the finally clause.
WakeRelease(w) ==
  /\ wake[w].pc = "finally"
  /\ lock' = FALSE
  /\ wake' = [wake EXCEPT ![w].pc = IF wake[w].exc THEN "failed" ELSE "finished"]
  /\ UNCHANGED <<store, index, boxes, nextId>>
  /\ UNCHANGED wakeFrame

NextWake ==
  \E w \in 1..MaxWakes :
    \/ WakeArrive(w)
    \/ WakeRecord(w)
    \/ WakeTranscribe(w)
    \/ WakeParse(w)
    \/ WakeAct(w)
    \/ WakeSpeak(w)
    \/ WakeRelease(w)

SpecWake == InitWake /\ [][NextWake]_vars

\* -------------------------------------------------------------- nlu front end
\* The utterances of the model: empty, one no rule of IntentParser matches,
\* and two that its rules match.
Texts == {"", "hello", "find nut", "remove all nuts"}

\* An element of the JSON array the language model answers; dict is FALSE for
\* an element that is not an object. quantity 0 and "" stand for null.
MkEl(d, i, o, q, t, b) ==
  [dict |-> d, intent |-> i, object_name |-> o, quantity |-> q, to_box |-> t,
   box_name |-> b]

Elements ==
  { MkEl(FALSE, "", "", 0, "", ""),
    MkEl(TRUE, "add", "tape", 2, "A", ""),
    MkEl(TRUE, "ADD", "nut", 0, "", ""),
    MkEl(TRUE, "REMOVE", "nut", 0, "", "B"),
    MkEl(TRUE, "ADD", "bolt", 1, "B", ""),
    MkEl(TRUE, "ADD", "bolt", 1, " A", ""),
    MkEl(TRUE, "ADD", "bolt", 1, " ", "") }

SeqsUpTo(S, n) == UNION { [1..k -> S] : k \in 0..n }

\* What GptService.chat returns: text that is fenced on both sides, on one
\* side or not at all, around JSON that does not parse, an object, an array
\* or a number.
Contents ==
  { [fence |-> fc, json |-> "garbage", obj |-> <<>>, els |-> <<>>] :
      fc \in {"none", "both", "open"} }
  \cup { [fence |-> fc, json |-> "scalar", obj |-> <<>>, els |-> <<>>] :
           fc \in {"none", "both"} }
  \cup { [fence |-> fc, json |-> "object", obj |-> <<e>>, els |-> <<>>] :
           fc \in {"none", "both"}, e \in {x \in Elements : x.dict} }
  \cup { [fence |-> fc, json |-> "array", obj |-> <<>>, els |-> a] :
           fc \in {"none", "both", "open"}, a \in SeqsUpTo(Elements, MaxEls) }

\* multi_intent.py lines 58-64.
_strip_fences(c) == IF c.fence = "both" THEN [c EXCEPT !.fence = "none"] ELSE c

\* json.loads succeeds on unfenced JSON text only.
Loads(c) == c.fence = "none" /\ c.json # "garbage"

Upper(i) == IF i = "add" THEN "ADD" ELSE i

\* multi_intent.py lines 70-86: the op built from one element.
OpOfEl(el) ==
  MkOp(Upper(el.intent), el.object_name,
       IF el.quantity = 0 THEN "" ELSE StrOf(el.quantity),
       IF el.to_box # "" THEN el.to_box ELSE el.box_name, "", FALSE, FALSE)

IsDict(el) == el.dict

\* Lines 97-103: the text says "remove all" or "remove everything".
SaysRemoveAll(t) == t = "remove all nuts"

MarkRemoveAll(t, out) ==
  [k \in 1..Len(out) |->
     IF SaysRemoveAll(t) /\ out[k].intent = "REMOVE" /\ out[k].quantity = ""
     THEN [out[k] EXCEPT !.remove_all = TRUE, !.everything = TRUE]
     ELSE out[k]]

\* str.strip on a box name (lines 106 and 111): " A" is "A" with a leading
\* blank and " " is a blank name.
Strip(b) == CASE b = " A" -> "A" [] b = " " -> "" [] OTHER -> b

\* The same step with the one destination written over every ADD op.
PropagateBoxOverAll(out) ==
  LET given(add_boxes) ==
        IF add_boxes # {}
        THEN [k \in 1..Len(out) |->
                IF out[k].intent = "ADD"
                THEN [out[k] EXCEPT !.to_box = CHOOSE b \in add_boxes : TRUE]
                ELSE out[k]]
        ELSE out
  IN given({Strip(out[k].to_box) : k \in {j \in 1..Len(out) :
                                     out[j].intent = "ADD" /\ Strip(out[j].to_box) # ""}})

\* Lines 104-114: one destination among the ADD ops is given to the others.
\* The destinations are compared stripped, and a blank one counts as missing.
PropagateBox(out) ==
  LET given(add_boxes) ==
        IF Cardinality(add_boxes) = 1
        THEN [k \in 1..Len(out) |->
                IF out[k].intent = "ADD" /\ Strip(out[k].to_box) = ""
                THEN [out[k] EXCEPT !.to_box = CHOOSE b \in add_boxes : TRUE]
                ELSE out[k]]
        ELSE out
  IN given({Strip(out[k].to_box) : k \in {j \in 1..Len(out) :
                                     out[j].intent = "ADD" /\ Strip(out[j].to_box) # ""}})

\* multi_intent.py lines 65-117, for a non-empty text and the content c.
ParseArray(t, c) ==
  IF ~Loads(c) THEN <<>>
  ELSE IF c.json # "array" THEN <<>>
  ELSE LET dicts == SelectSeq(c.els, IsDict)
       IN PropagateBox(MarkRemoveAll(t, [k \in 1..Len(dicts) |-> OpOfEl(dicts[k])]))

\* What the rules of IntentParser.parse yield (lines 20-248); intent "" when
\* no rule matches.
RuleDraft(t) ==
  CASE t = "find nut" -> MkOp("FIND", "nut", "", "", "", FALSE, FALSE)
    [] t = "remove all nuts" -> MkOp("REMOVE", "nut", "", "", "", TRUE, FALSE)
    [] OTHER -> MkOp("", "", "", "", "", FALSE, FALSE)

NullDraft == MkOp("", "", "", "", "", FALSE, FALSE)

\* parse_intent.py lines 252-267: the draft from the content c.
ParseObject(t, c) ==
  IF ~Loads(c) \/ c.json # "object" THEN NullDraft
  ELSE MkOp(c.obj[1].intent, c.obj[1].object_name,
            IF c.obj[1].quantity = 0 THEN "" ELSE StrOf(c.obj[1].quantity),
            IF c.obj[1].to_box # "" THEN c.obj[1].to_box ELSE c.obj[1].box_name,
            "", FALSE, FALSE)

nluFrame == <<pc, ops, start, reentry, normalized, from_box, sf, execIdx, summary, bres,
              store, index, boxes, nextId, faults, outcome, utter, lastExec, chunkSnap,
              execLog, said, lock, wake, cz, ui>>

InitNLU ==
  /\ pc = "off"
  /\ utter = <<>>
  /\ ops = <<>>
  /\ start = 0
  /\ reentry = FALSE
  /\ normalized = <<>>
  /\ from_box = ""
  /\ sf = [i |-> 0, p |-> 0, n |-> 0]
  /\ execIdx = 0
  /\ summary = <<>>
  /\ bres = NoRes
  /\ store = <<>>
  /\ index = <<>>
  /\ nextId = 1
  /\ boxes = {"A", "B"}
  /\ faults = 0
  /\ outcome = ""
  /\ lastExec = NoExec
  /\ chunkSnap = [store |-> <<>>, index |-> <<>>, boxes |-> {}]
  /\ execLog = <<>>
  /\ said = NoSaid
  /\ lock = FALSE
  /\ wake = WakeIdle
  /\ \E t \in Texts : nlu = [NluIdle EXCEPT !.pc = "extract", !.text = t]
  /\ cz = CzIdle
  /\ ui = UiIdle

\* MultiIntentExtractor.extract (multi_intent.py lines 24-117), called at
\* sorting_logic.py line 71. The chat call of line 51 is outside the try.
NluExtract ==
  /\ nlu.pc = "extract"
  /\ IF nlu.text = ""
     THEN nlu' = [nlu EXCEPT !.pc = "extracted", !.result = <<>>]
     ELSE \E raises \in BOOLEAN, c \in Contents :
            IF raises
            THEN nlu' = [nlu EXCEPT !.pc = "raised"]
            ELSE nlu' = [nlu EXCEPT !.pc = "extracted", !.content = c,
                                    !.result = ParseArray(nlu.text, _strip_fences(c))]
  /\ UNCHANGED nluFrame

\* sorting_logic.py lines 72-77.
NluFallback ==
  /\ nlu.pc = "extracted"
  /\ IF nlu.result = <<>>
     THEN nlu' = [nlu EXCEPT !.pc = "parse"]
     ELSE nlu' = [nlu EXCEPT !.pc = "ops", !.ops = nlu.result]
  /\ UNCHANGED nluFrame

\* IntentParser.parse (parse_intent.py lines 20-267) and line 75 of
\* sorting_logic.py. The chat call of line 250 is outside the try.
NluParse ==
  /\ nlu.pc = "parse"
  /\ LET parsed(d) ==
           nlu' = [nlu EXCEPT !.draft = d,
                              !.ops = IF d.intent # "" THEN <<d>> ELSE <<>>,
                              !.pc = IF d.intent # "" THEN "ops" ELSE "unknown"]
     IN IF RuleDraft(nlu.text).intent # ""
        THEN parsed(RuleDraft(nlu.text))
        ELSE \E raises \in BOOLEAN, c \in Contents :
               IF raises
               THEN nlu' = [nlu EXCEPT !.pc = "raised", !.content = NoContent]
               ELSE parsed(ParseObject(nlu.text, c))
  /\ UNCHANGED nluFrame

NextNLU == NluExtract \/ NluFallback \/ NluParse

SpecNLU == InitNLU /\ [][NextNLU]_vars

\* ---------------------------------------------------- CanonicalizeService
InitNorm ==
  /\ pc = "off"
  /\ utter = <<>>
  /\ ops = <<>>
  /\ start = 0
  /\ reentry = FALSE
  /\ normalized = <<>>
  /\ from_box = ""
  /\ sf = [i |-> 0, p |-> 0, n |-> 0]
  /\ execIdx = 0
  /\ summary = <<>>
  /\ bres = NoRes
  /\ store = <<>>
  /\ index = <<>>
  /\ nextId = 1
  /\ boxes = {"A", "B"}
  /\ faults = 0
  /\ outcome = ""
  /\ lastExec = NoExec
  /\ chunkSnap = [store |-> <<>>, index |-> <<>>, boxes |-> {}]
  /\ execLog = <<>>
  /\ said = NoSaid
  /\ lock = FALSE
  /\ wake = WakeIdle
  /\ nlu = NluIdle
  /\ \E n \in NameInputs : cz = [CzIdle EXCEPT !.pc = "name", !.name = n]
  /\ ui = UiIdle

\* normalize_to_singular(name).
NormalizeOnce ==
  /\ cz.pc = "name"
  /\ cz' = [cz EXCEPT !.pc = "once", !.once = normalize_to_singular_tokens(cz.name)]
  /\ UNCHANGED <<pipeVars, wakeVars, nlu, ui>>

\* normalize_to_singular of the result.
NormalizeAgain ==
  /\ cz.pc = "once"
  /\ cz' = [cz EXCEPT !.pc = "twice", !.twice = normalize_to_singular_tokens(cz.once)]
  /\ UNCHANGED <<pipeVars, wakeVars, nlu, ui>>

NextNorm == NormalizeOnce \/ NormalizeAgain

SpecNorm == InitNorm /\ [][NextNorm]_vars

\* ------------------------------------------------------- the voice button
\* MainWindow runs on the one Qt thread: stack holds the handlers that are
\* running, the innermost last, each stopped at a QApplication.processEvents()
\* call, which delivers the pending clicks to the button's handler before it
\* returns. "on" is line 517 and "off" lines 492-495 of main_window.py, "ask"
\* is lines 831-837 and "summary" line 179 of sorting_logic.py.
InitUI ==
  /\ pc = "off"
  /\ utter = <<>>
  /\ ops = <<>>
  /\ start = 0
  /\ reentry = FALSE
  /\ normalized = <<>>
  /\ from_box = ""
  /\ sf = [i |-> 0, p |-> 0, n |-> 0]
  /\ execIdx = 0
  /\ summary = <<>>
  /\ bres = NoRes
  /\ store = <<>>
  /\ index = <<>>
  /\ nextId = 1
  /\ boxes = {"A", "B"}
  /\ faults = 0
  /\ outcome = ""
  /\ lastExec = NoExec
  /\ chunkSnap = [store |-> <<>>, index |-> <<>>, boxes |-> {}]
  /\ execLog = <<>>
  /\ said = NoSaid
  /\ lock = FALSE
  /\ wake = WakeIdle
  /\ nlu = NluIdle
  /\ cz = CzIdle
  /\ ui = UiIdle

uiFrame == <<pipeVars, wakeVars, nlu, cz>>

\* The handler on top of the stack returns to the one below it.
Popped(u) == [u EXCEPT !.stack = SubSeq(u.stack, 1, Len(u.stack) - 1)]

\* A click on the button (line 232): Qt toggles the checkable button and calls
\* _on_voice_command, from the event loop or from a processEvents() call of a
\* handler that is running. The handler runs up to its first processEvents().
UIClick ==
  /\ ui.clicks < MaxClicks
  /\ ui' = [ui EXCEPT !.clicks = @ + 1, !.checked = ~ui.checked,
                      !.stack = Append(@, IF ui.checked THEN "off" ELSE "on")]
  /\ UNCHANGED uiFrame

\* Lines 518-525 of main_window.py with start_stream of whisper_io.py (lines
\* 66-77): the stream is opened unless one is open; a raise unchecks the button.
UIStartStream ==
  /\ ui.stack # <<>> /\ ui.stack[Len(ui.stack)] = "on"
  /\ \E raises \in BOOLEAN :
       ui' = IF raises /\ ~ui.stream
             THEN [Popped(ui) EXCEPT !.checked = FALSE]
             ELSE [Popped(ui) EXCEPT !.stream = TRUE]
  /\ UNCHANGED uiFrame

\* Lines 496-511: the stream is closed (whisper_io.py lines 79-98), the audio
\* transcribed, and handle_voice_intent called with a non-blank text. The run
\* stops at its next processEvents(), or ends without one; the finally of
\* line 510 unchecks the button.
UIStopAndRun ==
  /\ ui.stack # <<>> /\ ui.stack[Len(ui.stack)] = "off"
  /\ \E nxt \in {"ask", "summary", "end"} :
       ui' = IF nxt = "end"
             THEN [Popped(ui) EXCEPT !.stream = FALSE, !.checked = FALSE]
             ELSE [ui EXCEPT !.stream = FALSE, !.stack[Len(ui.stack)] = nxt]
  /\ UNCHANGED uiFrame

\* The run goes on from a processEvents() of _ask_slot: to the next one, to
\* the one before the summary is spoken, or to its end.
UIRunOn ==
  /\ ui.stack # <<>> /\ ui.stack[Len(ui.stack)] = "ask"
  /\ \E nxt \in {"summary", "end"} :
       ui' = IF nxt = "end"
             THEN [Popped(ui) EXCEPT !.checked = FALSE]
             ELSE [ui EXCEPT !.stack[Len(ui.stack)] = nxt]
  /\ UNCHANGED uiFrame

\* Lines 180-185 of sorting_logic.py and line 510 of main_window.py.
UIRunEnd ==
  /\ ui.stack # <<>> /\ ui.stack[Len(ui.stack)] = "summary"
  /\ ui' = [Popped(ui) EXCEPT !.checked = FALSE]
  /\ UNCHANGED uiFrame

NextUI == UIClick \/ UIStartStream \/ UIStopAndRun \/ UIRunOn \/ UIRunEnd

SpecUI == InitUI /\ [][NextUI]_vars

\* ------------------------------------------------------------- properties
FieldOf(o, fld) ==
  CASE fld = "object_name" -> o.object_name
    [] fld = "quantity" -> o.quantity
    [] fld = "to_box" -> o.to_box
    [] fld = "from_box" -> o.from_box
    [] OTHER -> ""

\* The fields the missing-prompt conditions of lines 320-347 do not ask for.
Waived(o, fld) ==
  \/ (fld = "quantity" /\ o.intent = "REMOVE" /\ o.remove_all)
  \/ (fld = "object_name" /\ o.intent = "FIND" /\ o.everything /\ o.to_box # "")

MissingRequired(o) ==
  {k \in DOMAIN _required_fields(o) :
     FieldOf(o, _required_fields(o)[k]) = "" /\ ~Waived(o, _required_fields(o)[k])}

\* C1: no op is executed (no InventoryService call is made for it) while a
\* field its intent requires is still empty.
C1_NoExecWithEmptyRequired == lastExec.called => MissingRequired(lastExec.op) = {}

\* C2: once a required field has used up its attempts unfilled, the batch has
\* returned failure and no op of the chunk was applied: the store, the index
\* and the boxes are as they were when the chunk started.
C2_ExhaustedCancelsBatch ==
  Exhausted =>
    /\ pc \in {"after", "done", "raised"}
    /\ ~bres.ok
    /\ store = chunkSnap.store
    /\ index = chunkSnap.index
    /\ boxes = chunkSnap.boxes
    /\ (~reentry => Len(execLog) = start)

C2_Witness ==
  /\ Exhausted
  /\ pc = "after"
  /\ start = CHUNK
  /\ \E i \in DOMAIN store : store[i].name = "tape"

\* C3: the ops are processed in consecutive chunks of at most CHUNK ops, one
\* chunk after the other and in extraction order: the k-th op executed is the
\* k-th op extracted (none skipped, reordered or executed twice), and while a
\* chunk is slot-filled or executed exactly the ops before it, and the ops of
\* the chunk before the current one, have been executed.
C3_SequentialChunks ==
  /\ start % CHUNK = 0
  /\ Len(normalized) <= CHUNK
  /\ \A k \in DOMAIN execLog : execLog[k] = k
  /\ Len(execLog) <= Len(ops) \/ reentry
  /\ (~reentry /\ pc \in {"slot", "exec"}) =>
       /\ Len(normalized) = Min(CHUNK, Len(ops) - start)
       /\ \A k \in DOMAIN normalized :
            normalized[k].intent = NormalizeOp(ops[start + k]).intent
  /\ (~reentry /\ pc = "slot") => Len(execLog) = start
  /\ (~reentry /\ pc = "exec") => Len(execLog) = start + execIdx - 1

C3_Witness ==
  /\ pc = "done"
  /\ outcome = "completed"
  /\ Len(ops) > 2 * CHUNK
  /\ Len(execLog) = Len(ops)

\* C4: the step that cancels a chunk (a field exhausted, a disambiguation
\* declined) ends the run and changes neither store, index nor boxes, so what
\* earlier chunks committed stays; no op after the cancelled chunk has been or
\* will be executed.
C4_CancelKeepsEarlier ==
  [][ /\ (outcome = "" /\ outcome' \in {"cancelled", "declined"}) =>
           /\ store' = store
           /\ index' = index
           /\ boxes' = boxes
      /\ outcome' \in {"cancelled", "declined"} =>
           /\ pc' = "done"
           /\ Len(execLog') <= start' + Len(normalized')
      /\ outcome \in {"cancelled", "declined"} =>
           /\ execLog' = execLog
           /\ store' = store
           /\ index' = index
           /\ boxes' = boxes ]_vars

C4_Witness ==
  /\ outcome = "cancelled"
  /\ Exhausted
  /\ start = CHUNK
  /\ Len(ops) > 2 * CHUNK
  /\ Len(execLog) = CHUNK
  /\ \E i \in DOMAIN store : store[i].name = "tape"

InBody == {w \in 1..MaxWakes : wake[w].pc \in Body}

\* C5: at most one invocation of _on_wake is between the acquisition of the
\* lock and its release, and the lock is held while it is.
C5_OneRunAtATime ==
  /\ Cardinality(InBody) <= 1
  /\ (InBody # {} => lock)

C5_Witness ==
  \E w, v \in 1..MaxWakes :
    /\ wake[w].pc = "act"
    /\ wake[v].pc \in {"finished", "failed"}
    /\ wake[v].did > 0

\* C6: an invocation that finds the lock held returns at once: it has done no
\* step of the body, its arrival changes nothing, and it never runs later.
C6_BusyWakeDropped ==
  [][ \A w \in 1..MaxWakes :
        /\ wake'[w].busy => (wake'[w].pc = "returned" /\ wake'[w].did = 0)
        /\ (wake[w].pc = "idle" /\ lock /\ wake'[w] # wake[w]) =>
             /\ wake'[w].busy
             /\ UNCHANGED <<lock, store, index, boxes, nextId>>
        /\ wake[w].pc = "returned" => wake'[w] = wake[w] ]_vars

C6_Witness ==
  \E w, v \in 1..MaxWakes :
    /\ wake[w].busy
    /\ wake[w].pc = "returned"
    /\ wake[v].pc \in {"finished", "failed"}
    /\ ~lock

\* C7: an item id has an index entry exactly if the item is in the store, and
\* the entry's box is the item's box in the store.
C7_IndexMatchesStore ==
  /\ DOMAIN index = DOMAIN store
  /\ \A i \in DOMAIN index \cap DOMAIN store : index[i].box = store[i].box

\* C8: a collaborator call that raises during the execution of an op does not
\* end the run with the exception.
C8_NoFaultEscapes == ~(pc = "raised" /\ lastExec.f = "raise")

\* C9: neither MultiIntentExtractor.extract nor IntentParser.parse raises to
\* handle_voice_intent, whatever the language model does.
C9_NeverRaises == nlu.pc # "raised"

TargetOf(o, ix) == {i \in DOMAIN ix : ix[i].name = normalize_to_singular(o.object_name)}

\* C10: a REMOVE of r of an item stored with quantity c leaves the record with
\* c - r and deletes nothing when r < c; when r >= c, or with remove_all, the
\* index entry is deleted, and so is the store record unless the store's
\* delete_item reports failure.
C10_RemoveArithmetic ==
  [][ (pc = "exec" /\ normalized[execIdx].intent = "REMOVE" /\ lastExec'.f # "raise") =>
        \A t \in TargetOf(normalized[execIdx], index) \cap DOMAIN store :
          IF normalized[execIdx].remove_all
             \/ (IF normalized[execIdx].quantity = "" THEN 1
                 ELSE IntOf(normalized[execIdx].quantity)) >= store[t].qty
          THEN /\ t \notin DOMAIN index'
               /\ (lastExec'.f # "delfail" => t \notin DOMAIN store')
          ELSE /\ t \in DOMAIN store'
               /\ store'[t].qty = store[t].qty
                                  - (IF normalized[execIdx].quantity = "" THEN 1
                                     ELSE IntOf(normalized[execIdx].quantity))
               /\ DOMAIN store' = DOMAIN store
               /\ DOMAIN index' = DOMAIN index ]_vars

C10_Witness ==
  /\ lastExec.op.intent = "REMOVE"
  /\ ~lastExec.op.remove_all
  /\ lastExec.op.quantity = "1"
  /\ \E t \in DOMAIN lastExec.store \cap DOMAIN store :
       /\ lastExec.store[t].name = "nut"
       /\ lastExec.store[t].qty = 2
       /\ store[t].qty = 1
       /\ t \in DOMAIN index

\* C11: from a store holding only positive quantities, no op leaves a record
\* whose quantity is 0 or less; checked for ops whose requested quantity is not
\* negative.
C11_NoNonPositiveQuantity ==
  (lastExec.op.quantity = "" \/ IntOf(lastExec.op.quantity) >= 0)
    => \A i \in DOMAIN store : store[i].qty >= 1

\* C12: every op that reaches execution has a quantity that is absent or a
\* non-negative integer.
C12_ExecQuantityNonNegative ==
  lastExec.called => (lastExec.op.quantity = "" \/ IntOf(lastExec.op.quantity) >= 0)

\* The record an ADD of op o increments: the nearest index entry, when its score
\* reaches the threshold and the store holds its id.
AddTarget(o, ix, st) ==
  LET hit(m) ==
        IF m # <<>> /\ m[1].score >= THRESHOLD /\ m[1].id \in DOMAIN st
        THEN {m[1].id} ELSE {}
  IN hit(top_k(normalize_to_singular(o.object_name), 1, ix))

\* C13: an ADD of quantity q whose best match reaches the threshold and exists
\* in the store adds q to that record's quantity, leaves its box and every other
\* record unchanged, and creates no record, whatever box the op names.
C13_AddIncrementsExisting ==
  [][ (pc = "exec" /\ normalized[execIdx].intent = "ADD" /\ lastExec'.f # "raise") =>
        \A t \in AddTarget(normalized[execIdx], index, store) :
          /\ DOMAIN store' = DOMAIN store
          /\ store'[t].qty = store[t].qty
                             + (IF normalized[execIdx].quantity = "" THEN 1
                                ELSE IntOf(normalized[execIdx].quantity))
          /\ store'[t].box = store[t].box
          /\ \A j \in DOMAIN store \ {t} : store'[j] = store[j] ]_vars

C13_Witness ==
  /\ lastExec.op.intent = "ADD"
  /\ lastExec.op.object_name = "nutt"
  /\ lastExec.op.to_box = "Z"
  /\ \E t \in DOMAIN lastExec.store \cap DOMAIN store :
       /\ lastExec.store[t].name = "nut"
       /\ store[t].qty = lastExec.store[t].qty + 1
       /\ store[t].box = "A"
  /\ DOMAIN store = DOMAIN lastExec.store

\* C14: an ADD that had to ask for a box asks once, attempts the add at most
\* twice, and either adds the item or skips it without mutation; in both cases
\* the execution loop goes on to the next op.
C14_AddBoxPromptSkips ==
  (lastExec.op.intent = "ADD" /\ lastExec.asks >= 1) =>
    /\ lastExec.asks = 1
    /\ lastExec.adds <= 2
    /\ lastExec.ctl = "next"
    /\ (lastExec.frag = "" =>
          store = lastExec.store /\ index = lastExec.index /\ boxes = lastExec.boxes)

\* C15: a single-item MOVE carrying a from_box leaves the item's box unchanged
\* when the resolved item is not in the box that from_box names.
C15_MoveFromBoxFailsClosed ==
  [][ (pc = "exec" /\ normalized[execIdx].intent = "MOVE"
       /\ ~normalized[execIdx].everything /\ normalized[execIdx].from_box # ""
       /\ lastExec'.f # "raise") =>
        \A t \in TargetOf(normalized[execIdx], index) \cap DOMAIN store :
          store[t].box # _find_box_by_name(normalized[execIdx].from_box, boxes)
            => (t \in DOMAIN store' /\ store'[t].box = store[t].box) ]_vars

\* C16: a MOVE with everything whose from_box and to_box name two different
\* existing boxes puts every item of the source box into the destination box
\* and changes no other item.
C16_MoveEverything ==
  [][ (pc = "exec" /\ normalized[execIdx].intent = "MOVE" /\ normalized[execIdx].everything
       /\ lastExec'.f = "none") =>
        LET between(A, B) ==
              (A # "" /\ B # "" /\ A # B) =>
                /\ DOMAIN store' = DOMAIN store
                /\ \A i \in DOMAIN store :
                     IF store[i].box = A
                     THEN store'[i] = [store[i] EXCEPT !.box = B]
                     ELSE store'[i] = store[i]
        IN between(_find_box_by_name(normalized[execIdx].from_box, boxes),
                   _find_box_by_name(normalized[execIdx].to_box, boxes)) ]_vars

\* C17: a single-item MOVE whose destination box is the resolved item's current
\* box writes neither the store nor the index and adds no fragment to the
\* spoken summary.
C17_MoveToSameBoxNoop ==
  [][ (pc = "exec" /\ normalized[execIdx].intent = "MOVE" /\ ~normalized[execIdx].everything
       /\ lastExec'.f # "raise"
       /\ \E t \in TargetOf(normalized[execIdx], index) \cap DOMAIN store :
            store[t].box = _find_box_by_name(normalized[execIdx].to_box, boxes)) =>
        (store' = store /\ index' = index /\ summary' = summary) ]_vars

\* C18: a REMOVE_BOX never changes the items; on a box with at least one linked
\* item it removes nothing and adds no 'removed box' fragment, and any box it
\* deletes has no item linked to it.
C18_RemoveBoxOnlyWhenEmpty ==
  [][ (pc = "exec" /\ normalized[execIdx].intent = "REMOVE_BOX") =>
        LET on(b) ==
              /\ store' = store
              /\ index' = index
              /\ (b # "" /\ (\E i \in DOMAIN store : store[i].box = b)) =>
                   (boxes' = boxes /\ summary' = summary /\ lastExec'.ctl = "next")
              /\ \A x \in boxes \ boxes' : \A i \in DOMAIN store : store[i].box # x
        IN on(_find_box_by_name(normalized[execIdx].to_box, boxes)) ]_vars

C18_Witness ==
  /\ lastExec.op.intent = "REMOVE_BOX"
  /\ lastExec.op.to_box = "A"
  /\ lastExec.f = "none"
  /\ lastExec.frag = ""
  /\ "A" \in boxes
  /\ \E i \in DOMAIN store : store[i].box = "A" /\ store[i].qty = lastExec.store[i].qty

\* C19: a MOVE, CLEAR_BOX or REMOVE_BOX whose box name resolves to no existing
\* box mutates nothing and the execution loop goes on to the next op.
C19_UnknownBoxContinues ==
  [][ (pc = "exec"
       /\ normalized[execIdx].intent \in {"MOVE", "CLEAR_BOX", "REMOVE_BOX"}
       /\ normalized[execIdx].to_box # ""
       /\ _find_box_by_name(normalized[execIdx].to_box, boxes) = ""
       /\ lastExec'.f = "none") =>
        (store' = store /\ index' = index /\ boxes' = boxes /\ lastExec'.ctl = "next") ]_vars

\* C20: the disambiguation prompt is reached only for a REMOVE or a MOVE, and
\* only a REMOVE or a MOVE makes a batch return suggestions.
C20_PromptOnlyForRemoveMove ==
  /\ pc = "suggest" =>
       /\ OriginalCtx(bres, ops[start + 1]).intent \in {"REMOVE", "MOVE"}
       /\ lastExec.op.intent \in {"REMOVE", "MOVE"}
  /\ bres.sugg # <<>> => lastExec.op.intent \in {"REMOVE", "MOVE"}

C20_Witness ==
  /\ pc = "suggest"
  /\ lastExec.op.intent = "MOVE"
  /\ lastExec.op.object_name = "bol"
  /\ Len(bres.sugg) >= 1

\* C21: at the disambiguation prompt a reply that is empty, or that is neither
\* a number in 1..(number of candidates) nor contained in a candidate's name,
\* selects no candidate: the run ends with the operation cancelled, nothing is
\* re-processed and the store is unchanged.
C21_InvalidReplyCancels ==
  [][ (pc = "suggest"
       /\ (\/ said'.reply = ""
           \/ /\ DigitOf(said'.reply) \notin 1..Len(bres.sugg)
              /\ \A k \in 1..Len(bres.sugg) : ~NameContains(bres.sugg[k].name, said'.reply))) =>
        (pc' = "done" /\ outcome' = "declined" /\ ~reentry' /\ store' = store) ]_vars

\* C22: the op executed in the re-processing of a selection carries the selected
\* record as its resolved_item, so that the operation works on that record and
\* resolves nothing by similarity search.
C22_ResolvedItemShortCircuits ==
  (pc = "exec" /\ reentry) =>
    /\ ops[1].resolved # NoneItem
    /\ normalized[execIdx].resolved = ops[1].resolved

\* C23: find_best_match returns a match exactly when the query is not empty and
\* some index entry scores at least the threshold, a score equal to the
\* threshold included; the match it returns is an entry of the highest score.
C23_ThresholdInclusive ==
  \A q \in {"", "nut", "Nut", "nutt", "bol", "bolt", "tape"} :
    LET atLeast == {i \in DOMAIN index : Sim(canonicalize(q), index[i].name) >= THRESHOLD}
        decided(r) ==
          /\ (r.item = NoneItem) <=> (q = "" \/ atLeast = {})
          /\ r.item # NoneItem =>
               /\ r.item.id \in atLeast
               /\ r.score = Sim(canonicalize(q), index[r.item.id].name)
               /\ \A j \in DOMAIN index : Sim(canonicalize(q), index[j].name) <= r.score
    IN decided(find_best_match(q, 3, index))

C23_Witness ==
  /\ lastExec.called
  /\ lastExec.op.object_name = "nutt"
  /\ find_best_match("nutt", 3, lastExec.index).score = THRESHOLD
  /\ find_best_match("nutt", 3, lastExec.index).item.name = "nut"
  /\ find_best_match("bol", 3, index).item = NoneItem
  /\ find_best_match("bol", 3, index).score = THRESHOLD - 1

\* C24: when the best score is below the threshold, find_best_match returns no
\* match and its suggestion list is the whole list of results fetched from the
\* index (one more than the number of suggestions asked for), best first.
C24_SuggestionsAreAllFetched ==
  \A q \in {"nut", "nutt", "bol", "bolt", "tape"} :
    LET fetched == top_k(q, 3 + 1, index)
        below(r) ==
          (fetched # <<>> /\ fetched[1].score < THRESHOLD) =>
            /\ r.item = NoneItem
            /\ r.sugg = fetched
            /\ \A k \in 1..(Len(r.sugg) - 1) : r.sugg[k].score >= r.sugg[k + 1].score
    IN below(find_best_match(q, 3, index))

\* C25: when the speak call that follows a batch (the summary, or the notice of
\* a cancelled group or of skipped suggestions) raises, the error is swallowed
\* and the run goes on as it does when the call returns.
C25_SpeakErrorsSwallowed ==
  [][ (pc = "after" /\ said'.tts = "raised") =>
        LET v == BatchVerdict([bres EXCEPT !.ctx = OriginalCtx(bres, ops[start + 1])],
                              reentry, start)
        IN pc' = v.pc /\ outcome' = v.outcome /\ start' = v.start ]_vars

C27_ClearBoxFrame ==
  [][ (pc = "exec" /\ normalized[execIdx].intent = "CLEAR_BOX"
       /\ _find_box_by_name(normalized[execIdx].to_box, boxes) # ""
       /\ lastExec'.f = "none") =>
        LET cleared(b) ==
              /\ \A i \in DOMAIN store' : store'[i].box # b
              /\ \A i \in DOMAIN store : store[i].box = b => i \notin DOMAIN index'
              /\ \A i \in DOMAIN store :
                   store[i].box # b => (i \in DOMAIN store' /\ store'[i] = store[i])
              /\ \A i \in DOMAIN index :
                   (i \notin DOMAIN store \/ store[i].box # b)
                     => (i \in DOMAIN index' /\ index'[i] = index[i])
              /\ DOMAIN store' \subseteq DOMAIN store
              /\ boxes' = boxes
              /\ lastExec'.count = Cardinality(DOMAIN store \ DOMAIN store')
              /\ lastExec'.frag = "cleared"
        IN cleared(_find_box_by_name(normalized[execIdx].to_box, boxes)) ]_vars

C27_Witness ==
  /\ lastExec.called /\ lastExec.f = "none"
  /\ lastExec.op.intent = "CLEAR_BOX"
  /\ lastExec.count >= 1
  /\ lastExec.count = Cardinality(DOMAIN lastExec.store \ DOMAIN store)
  /\ \E i \in DOMAIN lastExec.store : i \notin DOMAIN store /\ i \notin DOMAIN index
  /\ \E j \in DOMAIN store : store[j].box # lastExec.op.to_box

\* C28: normalize_to_singular applied to its own result returns that result.
C28_NormalizeIdempotent ==
  cz.pc = "twice" => cz.twice = cz.once

\* C29: the field a slot-filling question asks for is required for the op's
\* intent (object_name for ADD, REMOVE, a MOVE of one item and a FIND that is
\* not of everything in a box; quantity for a REMOVE without remove_all; to_box
\* for a MOVE and the box intents; from_box for a MOVE of everything) and the
\* op holds no value for it.
C29_AsksOnlyMissingRequired ==
  pc = "slot" =>
    LET asked(o, fld) ==
          CASE fld = "object_name" ->
                 /\ o.object_name = ""
                 /\ \/ o.intent \in {"ADD", "REMOVE"}
                    \/ (o.intent = "MOVE" /\ ~o.everything)
                    \/ (o.intent = "FIND" /\ ~(o.everything /\ o.to_box # ""))
            [] fld = "quantity" ->
                 o.quantity = "" /\ o.intent = "REMOVE" /\ ~o.remove_all
            [] fld = "to_box" ->
                 /\ o.to_box = ""
                 /\ o.intent \in {"MOVE", "CLEAR_BOX", "ADD_BOX", "REMOVE_BOX"}
            [] fld = "from_box" ->
                 o.from_box = "" /\ o.intent = "MOVE" /\ o.everything
            [] OTHER -> FALSE
    IN asked(normalized[sf.i], _required_fields(normalized[sf.i])[sf.p])

\* C30: for one missing field, the question is spoken and an answer captured
\* at most max(2, batch size) times.
C30_QuestionSpokenAtMostRetries ==
  [][ pc = "slot" => said'.spoken <= Max(2, Len(normalized)) ]_vars

\* C31: an answer to a question that is not the quantity of a REMOVE never sets
\* the op's remove_all, and the question loop of such a field ends only with
\* the field holding a value or with the batch cancelled.
C31_RemoveAllOnlyForQuantity ==
  [][ (pc = "slot"
       /\ ~(normalized[sf.i].intent = "REMOVE"
            /\ _required_fields(normalized[sf.i])[sf.p] = "quantity")) =>
        /\ normalized'[sf.i].remove_all = normalized[sf.i].remove_all
        /\ (sf'.i # sf.i \/ sf'.p # sf.p) =>
             \/ pc' = "after"
             \/ LET fld == _required_fields(normalized[sf.i])[sf.p]
                IN CASE fld = "object_name" -> normalized'[sf.i].object_name # ""
                     [] fld = "to_box" -> normalized'[sf.i].to_box # ""
                     [] fld = "from_box" -> normalized'[sf.i].from_box # ""
                     [] OTHER -> TRUE ]_vars

\* C32: the disambiguation prompt is reached only when the best score of the
\* op's name was below the threshold: when the search returned a match, the
\* other results are not presented as candidates.
C32_NoCandidatesAboveThreshold ==
  pc = "suggest" =>
    /\ lastExec.called
    /\ find_item_by_semantic(lastExec.op.object_name, lastExec.index).item = NoneItem

C34_OneVoiceRunAtATime ==
  LET runs == {k \in 1..Len(ui.stack) : ui.stack[k] \in {"ask", "summary"}}
  IN /\ Cardinality(runs) <= 1
     /\ runs # {} => ~ui.stream

\* C35: every run terminates: each step lowers a rank made of whether the
\* re-processing of a selected op is still to come, the ops from the current
\* chunk on, and the position within the chunk. After a batch the loop returns,
\* prompts, or goes on with start advanced by CHUNK, so no chunk is processed
\* twice. A selection starts the one re-processing of one op, during which no
\* disambiguation prompt is made.
C35_RunTerminates ==
  [][ LET rank(p, re, left, s, e) ==
            (IF re THEN 0 ELSE 100000)
            + 1000 * left
            + CASE p = "extract" -> 50000
                [] p = "chunk" -> 900
                [] p = "slot" -> 800 - (100 * s.i + 20 * s.p + s.n)
                [] p = "exec" -> 200 - e
                [] p = "after" -> 50
                [] p = "suggest" -> 40
                [] OTHER -> 0
      IN /\ rank(pc', reentry', Max(Len(ops') - start', 0), sf', execIdx')
              < rank(pc, reentry, Max(Len(ops) - start, 0), sf, execIdx)
         /\ (pc = "after" /\ pc' = "chunk") => start' = start + CHUNK
         /\ pc' = "suggest" => ~reentry'
         /\ (pc = "suggest" /\ pc' = "chunk") =>
              ~reentry /\ reentry' /\ Len(ops') = 1 /\ start' = 0 ]_vars

\* A run of more than one chunk came to its end after the second chunk.
C35_Witness ==
  /\ pc = "done"
  /\ outcome = "completed"
  /\ Len(ops) > CHUNK
  /\ start = 2 * CHUNK

\* C36: when a chunk is reported as cancelled, the items of the store, the
\* vector index and the boxes are as they were when the chunk started.
C36_CancelledChunkMutatesNothing ==
  (pc = "done" /\ outcome = "cancelled") =>
    /\ store = chunkSnap.store
    /\ index = chunkSnap.index
    /\ boxes = chunkSnap.boxes

\* C37: the op re-processed after a disambiguation selection has the quantity,
\* remove_all, to_box and from_box of the op that was asked about; only the
\* item is replaced.
C37_ReentryKeepsSlots ==
  [][ (pc = "suggest" /\ pc' = "chunk") =>
        /\ ops'[1].intent = normalized[1].intent
        /\ ops'[1].quantity = normalized[1].quantity
        /\ ops'[1].remove_all = normalized[1].remove_all
        /\ ops'[1].to_box = normalized[1].to_box
        /\ ops'[1].from_box = normalized[1].from_box ]_vars

\* C38: in a chunk of two or more ops a REMOVE or MOVE whose name has no match
\* at the threshold is skipped: store, index and boxes stay as they are, no
\* suggestions are returned, and the loop goes on to the next op of the chunk,
\* or to the chunk's successful end after the last one. The disambiguation
\* prompt is reached only from a chunk of exactly one op.
C38_MultiModeSkipsUnresolved ==
  [][ /\ (pc = "exec"
          /\ Len(normalized) >= 2
          /\ normalized[execIdx].intent \in {"REMOVE", "MOVE"}
          /\ ~normalized[execIdx].everything
          /\ find_item_by_semantic(normalized[execIdx].object_name, index).item = NoneItem
          /\ lastExec'.f # "raise") =>
           /\ store' = store /\ index' = index /\ boxes' = boxes
           /\ lastExec'.ctl = "next"
           /\ bres'.sugg = <<>>
           /\ IF execIdx < Len(normalized)
              THEN pc' = "exec" /\ execIdx' = execIdx + 1
              ELSE pc' = "after" /\ bres'.ok
      /\ pc' = "suggest" => Len(normalized') = 1 ]_vars

\* C39: every item of the store is linked to a box that exists.
C39_ItemsLinkedToLiveBoxes ==
  \A i \in DOMAIN store : store[i].box \in boxes

\* A REMOVE_BOX deleted a box that had been emptied while the store holds items.
C39_Witness ==
  /\ lastExec.op.intent = "REMOVE_BOX"
  /\ lastExec.boxes \ boxes # {}
  /\ DOMAIN store # {}
  /\ \E i \in DOMAIN store : store[i].box \in boxes

\* C40: the lock is held only while an invocation of _on_wake is in its body:
\* when the invocation that acquired it ends, normally or with an exception,
\* the lock is free, and an invocation that arrives while it is free starts
\* a run.
C40_LockFreedAfterRun ==
  [][ /\ lock' => InBody' # {}
      /\ \A w \in 1..MaxWakes :
           /\ (wake[w].pc # wake'[w].pc /\ wake'[w].pc \in {"finished", "failed"}) =>
                (lock /\ ~lock')
           /\ (wake[w].pc = "idle" /\ ~lock /\ wake'[w] # wake[w]) =>
                (wake'[w].pc = "record" /\ lock') ]_vars

\* An invocation is recording after an earlier one ended with an exception
\* raised by one of its calls.
C40_Witness ==
  \E w, v \in 1..MaxWakes :
    /\ wake[v].pc = "failed"
    /\ wake[v].did > 0
    /\ wake[w].pc = "record"
    /\ lock

====
